---- MODULE Spec2Model ----
(***************************************************************************)
(* Verification model of pj_assistant: the scope resolver, the element     *)
(* locators, the wait loops and the evaluation flow of                     *)
(* src/src/pj_assistant/assistant.py, and load_config of config.py.        *)
(***************************************************************************)
EXTENDS Integers, Sequences, FiniteSets, TLC

VARIABLES
  rsDoc,      \* _resolve_scope: the document state (frames and lookup outcomes)
  rsOut,      \* _resolve_scope: result of the full variant
  rsFastOut,  \* _resolve_scope_fast: result of the fast variant
  ftDom,      \* _find_table: the scope's document (tables, rate buttons, failing queries)
  ftOut,      \* _find_table: result of the full variant
  ftFastOut,  \* _find_table_fast: result of the fast variant
  mDoc,       \* _wait_for_modal: the page's frames and their elements
  mCfg,       \* _wait_for_modal: cfg.selectors.modal
  mPolls,     \* _wait_for_modal: completed iterations of the polling loop
  mOut,       \* _wait_for_modal: result
  mMissed,    \* history: a poll went by a visible element matching a candidate
  tbIn,       \* _collect_teacher_tabs: the container passed and the candidate handles
  tbOut,      \* _collect_teacher_tabs: result
  raw,        \* load_config: the parsed YAML document
  cfg,        \* load_config: the AppConfig returned, or the error raised
  delay,      \* _rand_delay: the last delay drawn (ms)
  comment,    \* _prefill_active_block: the last value written to a comment field
  pfIn,       \* _prefill_active_block: cfg.rating_text and the active block's content
  pfPc,       \* _prefill_active_block: position in the function
  pfList,     \* _click_questions: the questions matched by the selector of this pass
  pfI,        \* _click_questions: loop index into pfList
  pfCount,    \* _click_questions: the counters filled and skipped of this pass
  pfLog,      \* history: the clicks and fills made, in order
  coop,       \* the portal is cooperative: every awaited condition comes to hold
  pc,         \* assist_all_pages / assist_page: position in the program
  pg,         \* the page of the list the portal displays (0: none yet)
  rows,       \* the rows with a pending affordance the displayed page started with
  first,      \* the first row whose pending affordance is still there
  modal,      \* the portal's rating modal
  tabs,       \* the teacher tabs of the open modal
  ti,         \* index of the tab loops
  polls,      \* iterations made by the confirmation loop
  confirmed,  \* _confirmed of the confirmation loop
  cur,        \* history: the item being processed and what was done to it
  existed,    \* history: the pending items the displayed page started with
  processed,  \* history: those opened, filled, submitted and seen closed once
  drained,    \* history: the pages left with every pending item processed
  anomaly,    \* history: an item was handled twice or closed half-done
  nextSeen,   \* history: the next-page controls seen at the last pagination decision
  nextAct,    \* history: what the program did at that decision
  trace,      \* history: what was done to the item being processed, in order
  owed,       \* history: the last click not yet followed by a _rand_delay
  missed,     \* history: two clicks made for this item with no _rand_delay between
  ckVia,      \* _safe_click (locator) or _safe_click_handle (handle)
  ckTarget,   \* the click target: still in the document, has a click method
  ckPc,       \* position in the ladder
  ckLog,      \* history: the calls attempted on the target and how each ended
  ckErr,      \* the error propagated to the caller
  mnProg,     \* the entry program: run_assist or run_login
  mnPc,       \* position in main
  mnLog,      \* history: what was done with the browser, in order
  mnErr,      \* the exception on its way out of main
  mnExit,     \* how the program ended
  wtKind,     \* the wait running
  wtLimit,    \* its timeout, in polls
  wtLook,     \* what a look at the page gives now
  wtTick,     \* polls slept so far
  wtOut,      \* polling, returned or raised
  wtSeen,     \* the wait saw its condition met
  mcMax,      \* max_wait_s
  mcVis,      \* what modal_locator.is_visible() gives now
  mcDialog,   \* a success dialog is shown
  mcPc,       \* position in _wait_modal_closed
  mcElapsed,  \* time.monotonic() - start
  mcTick,     \* what the current pass of the loop did
  rfPc,       \* position in assist_all_pages / assist_page
  rfPage,     \* page of the list displayed
  rfLeft,     \* pending rows left on the page
  rfTabs,     \* heuristic tab handles collected for the modal
  rfTi,       \* tab handle to click next
  rfOld,      \* references obtained before the last replacing event
  rfStale     \* history: outdated references that were used

scopeVars == <<rsDoc, rsOut, rsFastOut>>
tableVars == <<ftDom, ftOut, ftFastOut>>
modalVars == <<mDoc, mCfg, mPolls, mOut, mMissed>>
tabVars == <<tbIn, tbOut>>
cfgVars == <<raw, cfg, delay, comment>>
fillVars == <<pfIn, pfPc, pfList, pfI, pfCount, pfLog>>
flowVars == <<coop, pc, pg, rows, first, modal, tabs, ti, polls, confirmed,
              cur, existed, processed, drained, anomaly, nextSeen, nextAct,
              trace, owed, missed>>
clickVars == <<ckVia, ckTarget, ckPc, ckLog, ckErr>>
mainVars == <<mnProg, mnPc, mnLog, mnErr, mnExit>>
waitVars == <<wtKind, wtLimit, wtLook, wtTick, wtOut, wtSeen>>
closedVars == <<mcMax, mcVis, mcDialog, mcPc, mcElapsed, mcTick>>
refVars == <<rfPc, rfPage, rfLeft, rfTabs, rfTi, rfOld, rfStale>>
vars == <<scopeVars, tableVars, modalVars, tabVars, cfgVars, fillVars,
          flowVars, clickVars, mainVars, waitVars, closedVars, refVars>>

\* Each group of variables belongs to one component; a step of a component
\* leaves the other components' variables alone.
ScopeOnly == UNCHANGED <<tableVars, modalVars, tabVars, cfgVars, fillVars,
                         flowVars, clickVars, mainVars, waitVars, closedVars,
                         refVars>>
TableOnly == UNCHANGED <<scopeVars, modalVars, tabVars, cfgVars, fillVars,
                         flowVars, clickVars, mainVars, waitVars, closedVars,
                         refVars>>
ModalOnly == UNCHANGED <<scopeVars, tableVars, tabVars, cfgVars, fillVars,
                         flowVars, clickVars, mainVars, waitVars, closedVars,
                         refVars>>
TabsOnly == UNCHANGED <<scopeVars, tableVars, modalVars, cfgVars, fillVars,
                        flowVars, clickVars, mainVars, waitVars, closedVars,
                        refVars>>
ConfigOnly == UNCHANGED <<scopeVars, tableVars, modalVars, tabVars, fillVars,
                          flowVars, clickVars, mainVars, waitVars,
                          closedVars, refVars>>
FillOnly == UNCHANGED <<scopeVars, tableVars, modalVars, tabVars, cfgVars,
                        flowVars, clickVars, mainVars, waitVars, closedVars,
                        refVars>>
FlowOnly == UNCHANGED <<scopeVars, tableVars, modalVars, tabVars, cfgVars,
                        fillVars, clickVars, mainVars, waitVars, closedVars,
                        refVars>>
ClickOnly == UNCHANGED <<scopeVars, tableVars, modalVars, tabVars, cfgVars,
                         fillVars, flowVars, mainVars, waitVars, closedVars,
                         refVars>>
MainOnly == UNCHANGED <<scopeVars, tableVars, modalVars, tabVars, cfgVars,
                        fillVars, flowVars, clickVars, waitVars, closedVars,
                        refVars>>
WaitsOnly == UNCHANGED <<scopeVars, tableVars, modalVars, tabVars, cfgVars,
                         fillVars, flowVars, clickVars, mainVars, closedVars,
                         refVars>>
ClosedOnly == UNCHANGED <<scopeVars, tableVars, modalVars, tabVars, cfgVars,
                          fillVars, flowVars, clickVars, mainVars, waitVars,
                          refVars>>
RefsOnly == UNCHANGED <<scopeVars, tableVars, modalVars, tabVars, cfgVars,
                        fillVars, flowVars, clickVars, mainVars, waitVars,
                        closedVars>>

\* ------------------------------------------------------------------------
\* Bounds of the model
\* ------------------------------------------------------------------------
MaxFrames == 2       \* non-main frames of the page
MaxTables == 2       \* table elements in a scope
MaxButtons == 2      \* "rate" buttons/links in a scope
MaxModalElems == 2   \* modal-like elements in the top-level page
MaxPolls == 2        \* iterations of a polling loop before its deadline
MaxTabCands == 2     \* candidate elements seen by _collect_teacher_tabs
MaxDelay == 2        \* largest delays_ms value written in a configuration file
MaxTemplates == 2    \* longest comment_templates list in a configuration file
MaxQuestions == 2    \* question elements in the active block
MaxPages == 2        \* pages of the paginated list
MaxRows == 2         \* rows with a pending affordance on one page
MaxTabs == 2         \* teacher tabs of one modal
MaxWait == 2         \* largest max_wait_s of _wait_modal_closed

\* ------------------------------------------------------------------------
\* Shared encodings
\* ------------------------------------------------------------------------
\* Outcome of locator(sel).count(): a match count n, or raises when the query
\* throws (detached frame, invalid selector, ...).
Raises == [raises |-> TRUE, n |-> 0]
Count(k) == [raises |-> FALSE, n |-> k]
CountOutcomes == {Raises} \cup { Count(k) : k \in 0..1 }
\* Results of a call: not made yet, returned a value, or left by an exception.
Unset == [st |-> "unset"]
Raised == [st |-> "raise"]
Ret(v) == [st |-> "return", val |-> v]
NoScope == [st |-> "none"]      \* a scan loop that fell through
PageScope == 0                  \* the top-level page; frame i of page.frames is scope i

\* ------------------------------------------------------------------------
\* _resolve_scope / _resolve_scope_fast
\* ------------------------------------------------------------------------
\* A document: page.frames as a sequence (exactly one entry is the main
\* frame), and for the page and every frame the outcome of the primary and
\* of the fallback selector lookup.  page.locator is the main frame's.
Lookup == [prim : CountOutcomes, fb : CountOutcomes]
FrameRec == [main : BOOLEAN, look : Lookup]

Docs ==
  { d \in [page : Lookup, frames : UNION { [1..n -> FrameRec] : n \in 1..(MaxFrames + 1) }] :
      /\ Cardinality({ i \in DOMAIN d.frames : d.frames[i].main }) = 1
      /\ \A i \in DOMAIN d.frames : d.frames[i].main => d.frames[i].look = d.page }

\* scopes = [("page", page)] + [frame for frame in page.frames if frame != main_frame]
RECURSIVE NonMainFrom(_, _)
NonMainFrom(d, i) ==
  IF i > Len(d.frames) THEN <<>>
  ELSE IF d.frames[i].main THEN NonMainFrom(d, i + 1)
  ELSE <<i>> \o NonMainFrom(d, i + 1)

ScopeList(d) == <<PageScope>> \o NonMainFrom(d, 1)

ScopeLookup(d, s) == IF s = PageScope THEN d.page ELSE d.frames[s].look

\* One "for name, scope in scopes: try: if count(): return scope / except: continue"
\* loop, from position i; NoScope when the loop falls through.
RECURSIVE ScanScopesNoCatch(_, _, _, _)
ScanScopesNoCatch(d, scopes, sel, i) ==
  IF i > Len(scopes) THEN NoScope
  ELSE LET c == ScopeLookup(d, scopes[i])[sel] IN
       IF c.raises THEN Raised
       ELSE IF c.n # 0 THEN Ret(scopes[i])
       ELSE ScanScopesNoCatch(d, scopes, sel, i + 1)

RECURSIVE ScanScopes(_, _, _, _)
ScanScopes(d, scopes, sel, i) ==
  IF i > Len(scopes) THEN NoScope
  ELSE LET c == ScopeLookup(d, scopes[i])[sel] IN
       IF c.raises THEN ScanScopes(d, scopes, sel, i + 1)    \* except: continue
       ELSE IF c.n # 0 THEN Ret(scopes[i])
       ELSE ScanScopes(d, scopes, sel, i + 1)

\* Four loops: primary, then three times the same fallback selector.
ResolveScope(d) ==
  LET scopes == ScopeList(d)
      a == ScanScopes(d, scopes, "prim", 1)
      b == ScanScopes(d, scopes, "fb", 1)
      c == ScanScopes(d, scopes, "fb", 1)
      e == ScanScopes(d, scopes, "fb", 1)
  IN  IF a # NoScope THEN a
      ELSE IF b # NoScope THEN b
      ELSE IF c # NoScope THEN c
      ELSE IF e # NoScope THEN e
      ELSE Ret(PageScope)

\* Two loops: primary, then the fallback selector once.
ResolveScopeFast(d) ==
  LET scopes == ScopeList(d)
      a == ScanScopes(d, scopes, "prim", 1)
      b == ScanScopes(d, scopes, "fb", 1)
  IN  IF a # NoScope THEN a
      ELSE IF b # NoScope THEN b
      ELSE Ret(PageScope)

ScopeInit == rsDoc \in Docs /\ rsOut = Unset /\ rsFastOut = Unset
ScopeIdle == rsDoc = <<>> /\ rsOut = Unset /\ rsFastOut = Unset

CallResolveScope ==
  /\ rsOut = Unset
  /\ rsOut' = ResolveScope(rsDoc)
  /\ UNCHANGED <<rsDoc, rsFastOut>>
  /\ ScopeOnly

CallResolveScopeFast ==
  /\ rsFastOut = Unset
  /\ rsFastOut' = ResolveScopeFast(rsDoc)
  /\ UNCHANGED <<rsDoc, rsOut>>
  /\ ScopeOnly

ScopeNext == CallResolveScope \/ CallResolveScopeFast

\* C1: _resolve_scope and _resolve_scope_fast walk the page first and then
\* the non-main frames in order; they return the first scope whose primary
\* selector has a nonzero count, else the first scope whose fallback
\* selector has a nonzero count, else the page; a lookup that raises counts
\* as no match, and neither function ever raises.
Matches(d, s, sel) == ~ScopeLookup(d, s)[sel].raises /\ ScopeLookup(d, s)[sel].n > 0
FirstMatching(d, sel, s) ==
  LET scopes == ScopeList(d) IN
  \E i \in DOMAIN scopes :
     /\ scopes[i] = s
     /\ Matches(d, s, sel)
     /\ \A j \in 1..(i - 1) : ~Matches(d, scopes[j], sel)
AnyMatch(d, sel) == \E i \in DOMAIN ScopeList(d) : Matches(d, ScopeList(d)[i], sel)
ScopeOrderOK(d) ==
  LET scopes == ScopeList(d) IN
  /\ scopes[1] = PageScope
  /\ \A i \in DOMAIN d.frames : ~d.frames[i].main => \E k \in 2..Len(scopes) : scopes[k] = i
  /\ \A k \in 2..Len(scopes) : ~d.frames[scopes[k]].main
  /\ \A k, l \in 2..Len(scopes) : k < l => scopes[k] < scopes[l]
ResolvedAsSpecified(d, out) ==
  /\ out.st = "return"
  /\ ScopeOrderOK(d)
  /\ AnyMatch(d, "prim") => FirstMatching(d, "prim", out.val)
  /\ (~AnyMatch(d, "prim") /\ AnyMatch(d, "fb")) => FirstMatching(d, "fb", out.val)
  /\ (~AnyMatch(d, "prim") /\ ~AnyMatch(d, "fb")) => out.val = PageScope
C1_ResolveScopeFirstMatch ==
  /\ rsOut # Unset => ResolvedAsSpecified(rsDoc, rsOut)
  /\ rsFastOut # Unset => ResolvedAsSpecified(rsDoc, rsFastOut)
\* C1 witness: the primary selector raises on the page and matches nowhere,
\* the fallback matches in a frame, and both variants returned that frame.
C1_Witness ==
  /\ rsOut # Unset /\ rsFastOut # Unset
  /\ rsDoc.page.prim = Raises
  /\ ~AnyMatch(rsDoc, "prim")
  /\ rsOut # Ret(PageScope) /\ rsFastOut = rsOut

\* ------------------------------------------------------------------------
\* _find_table / _find_table_fast
\* ------------------------------------------------------------------------
\* A scope's document: its table elements in document order (prim: matched by
\* cfg.selectors.table, kw: contains the text "评价"), its "rate" buttons and
\* links in document order, each with the index of its nearest enclosing
\* table (0: inside no table), and the set of queries whose count() raises.
\* A table that encloses a rate button contains the keyword text.
TableRec == [prim : BOOLEAN, kw : BOOLEAN]
Queries == {"prim", "btn", "kw"}
TableDoms ==
  { d \in [tables  : UNION { [1..n -> TableRec] : n \in 0..MaxTables },
           buttons : UNION { [1..n -> 0..MaxTables] : n \in 0..MaxButtons },
           raising : SUBSET Queries] :
      \A i \in DOMAIN d.buttons :
         d.buttons[i] # 0 => (d.buttons[i] \in DOMAIN d.tables /\ d.tables[d.buttons[i]].kw) }

\* A locator handed back by _find_table: how it was built and the table it
\* resolves to (0: it resolves to no element).
None == [via |-> "none", el |-> 0]
Loc(via, el) == [via |-> via, el |-> el]

\* locator.first: the first element in document order, 0 when there is none.
FirstTable(d, f) ==
  IF \E i \in DOMAIN d.tables : d.tables[i][f]
  THEN CHOOSE i \in DOMAIN d.tables :
         d.tables[i][f] /\ \A j \in 1..(i - 1) : ~d.tables[j][f]
  ELSE 0

\* locator.count() of the three queries
QCount(d, q) ==
  IF q = "btn" THEN Len(d.buttons)
  ELSE Cardinality({ i \in DOMAIN d.tables : d.tables[i][q] })

\* scope.locator(cfg.selectors.table).first
PrimaryFirst(d) == Loc("primary", FirstTable(d, "prim"))
\* pending.first.locator("xpath=ancestor::table[1]")
AncestorOfFirstButton(d) == Loc("ancestor", d.buttons[1])
\* scope.locator('table:has-text("评价")').first
KeywordFirst(d) == Loc("keyword", FirstTable(d, "kw"))

\* "loc = scope.locator(q); if loc.count(): return hit" followed by the rest;
\* count() is not guarded, so a raising query leaves the function.
Step(d, q, hit, rest) ==
  IF q \in d.raising THEN Raised
  ELSE IF QCount(d, q) # 0 THEN Ret(hit)
  ELSE rest

FindTableKeywordFirst(d) ==
  Step(d, "prim", PrimaryFirst(d),
  Step(d, "kw", KeywordFirst(d),
  Step(d, "btn", AncestorOfFirstButton(d),
  Ret(None))))

FindTable(d) ==
  Step(d, "prim", PrimaryFirst(d),
  Step(d, "btn", AncestorOfFirstButton(d),
  Step(d, "kw", KeywordFirst(d),
  Step(d, "btn", AncestorOfFirstButton(d),
  Step(d, "btn", AncestorOfFirstButton(d),
  Step(d, "kw", KeywordFirst(d),
  Step(d, "kw", KeywordFirst(d),
  Ret(None))))))))

FindTableFast(d) ==
  Step(d, "prim", PrimaryFirst(d),
  Step(d, "btn", AncestorOfFirstButton(d),
  Step(d, "kw", KeywordFirst(d),
  Ret(None))))

TableInit == ftDom \in TableDoms /\ ftOut = Unset /\ ftFastOut = Unset
TableIdle == ftDom = <<>> /\ ftOut = Unset /\ ftFastOut = Unset

CallFindTable ==
  /\ ftOut = Unset
  /\ ftOut' = FindTable(ftDom)
  /\ UNCHANGED <<ftDom, ftFastOut>>
  /\ TableOnly

CallFindTableFast ==
  /\ ftFastOut = Unset
  /\ ftFastOut' = FindTableFast(ftDom)
  /\ UNCHANGED <<ftDom, ftOut>>
  /\ TableOnly

TableNext == CallFindTable \/ CallFindTableFast

\* ------------------------------------------------------------------------
\* _iter_scopes / _wait_for_modal
\* ------------------------------------------------------------------------
\* An element carries CSS classes and is visible or hidden.  A selector asks
\* for a set of classes and, with the :visible pseudo-class, for visibility.
ElemClassSets == { {"modal"}, {"pjModal"}, {"modal", "pjModal"}, {"modal", "in"} }
Elem == [cls : ElemClassSets, visible : BOOLEAN]
Selector(c, v) == [cls |-> c, vis |-> v]
\* cfg.selectors.modal: the default ".modal:visible", or a configured ".pjModal"
DefaultModalSelector == Selector({"modal"}, TRUE)
ModalSelectors == { DefaultModalSelector, Selector({"pjModal"}, FALSE) }
\* candidates = [cfg.selectors.modal, ".modal.pjModal", ".pjModal", ".modal.in", ".modal"]
Candidates(sel) ==
  << sel,
     Selector({"modal", "pjModal"}, FALSE),
     Selector({"pjModal"}, FALSE),
     Selector({"modal", "in"}, FALSE),
     Selector({"modal"}, FALSE) >>

\* The page: frames[1] is the main frame (the page's own document), followed
\* by at most one sub-frame; a frame whose queries raise is detached.
ModalFrame == [main : BOOLEAN, elems : UNION { [1..n -> Elem] : n \in 0..MaxModalElems },
               raises : BOOLEAN]
ModalDocs ==
  { d \in [frames : UNION { [1..n -> ModalFrame] : n \in 1..2 }] :
      /\ d.frames[1].main /\ ~d.frames[1].raises
      /\ \A i \in 2..Len(d.frames) : ~d.frames[i].main /\ Len(d.frames[i].elems) <= 1 }

\* _iter_scopes: the page, then every frame that is not the main frame
IterScopes(d) == <<PageScope>> \o NonMainFrom(d, 1)
MainFrame(d) == CHOOSE i \in DOMAIN d.frames : d.frames[i].main
ScopeFrame(d, s) == IF s = PageScope THEN d.frames[MainFrame(d)] ELSE d.frames[s]

SelMatches(sel, e) == sel.cls \subseteq e.cls /\ (sel.vis => e.visible)
\* scope.locator(sel): the indices of the matching elements, in document order
Matching(f, sel) == { i \in DOMAIN f.elems : SelMatches(sel, f.elems[i]) }
Min(S) == CHOOSE x \in S : \A y \in S : x <= y
\* A poll's result for one (scope, selector): the element returned, if any.
\*   loc.count() == 0 -> continue; loc.first.is_visible() -> return; raise -> continue
AnyVisibleMatch(f, sel) ==
  IF f.raises THEN 0
  ELSE LET vis == { i \in Matching(f, sel) : f.elems[i].visible } IN
       IF vis = {} THEN 0 ELSE Min(vis)
FirstIfVisible(f, sel) ==
  IF f.raises THEN 0
  ELSE IF Matching(f, sel) = {} THEN 0
  ELSE IF f.elems[Min(Matching(f, sel))].visible THEN Min(Matching(f, sel))
  ELSE 0

\* One pass of "for scope in _iter_scopes(page): for sel in candidates:",
\* from scope position i and candidate k; NoScope when nothing was returned.
RECURSIVE ScanModal(_, _, _, _)
ScanModal(d, cands, i, k) ==
  LET scopes == IterScopes(d) IN
  IF i > Len(scopes) THEN NoScope
  ELSE IF k > Len(cands) THEN ScanModal(d, cands, i + 1, 1)
  ELSE LET e == FirstIfVisible(ScopeFrame(d, scopes[i]), cands[k]) IN
       IF e # 0 THEN Ret([scope |-> scopes[i], el |-> e, cand |-> k, dom |-> d])
       ELSE ScanModal(d, cands, i, k + 1)

\* Whether some scope that answers holds a visible element matching a candidate
VisibleModalPresent(d, cands) ==
  \E s \in { IterScopes(d)[i] : i \in DOMAIN IterScopes(d) } : \E k \in DOMAIN cands :
     LET f == ScopeFrame(d, s) IN
     ~f.raises /\ \E i \in Matching(f, cands[k]) : f.elems[i].visible

ModalInit ==
  /\ mDoc \in ModalDocs /\ mCfg \in ModalSelectors
  /\ mPolls = 0 /\ mOut = Unset /\ mMissed = FALSE
ModalIdle ==
  /\ mDoc = <<>> /\ mCfg = <<>> /\ mPolls = 0 /\ mOut = Unset /\ mMissed = FALSE

\* One iteration of "while time.monotonic() < deadline": scan, return or sleep.
ModalPoll ==
  /\ mOut = Unset /\ mPolls < MaxPolls
  /\ LET r == ScanModal(mDoc, Candidates(mCfg), 1, 1) IN
     IF r # NoScope
     THEN mOut' = r /\ UNCHANGED <<mPolls, mMissed>>
     ELSE /\ mPolls' = mPolls + 1
          /\ mMissed' = (mMissed \/ VisibleModalPresent(mDoc, Candidates(mCfg)))
          /\ UNCHANGED mOut
  /\ UNCHANGED <<mDoc, mCfg>>
  /\ ModalOnly

\* The deadline (30 s) has passed after at least one iteration: raise RuntimeError.
ModalTimeout ==
  /\ mOut = Unset /\ mPolls >= 1
  /\ mOut' = Raised
  /\ UNCHANGED <<mDoc, mCfg, mPolls, mMissed>>
  /\ ModalOnly

\* Between polls the portal shows or hides an element (the modal opens).
ModalDomChange ==
  /\ mOut = Unset
  /\ \E fi \in DOMAIN mDoc.frames : \E ei \in DOMAIN mDoc.frames[fi].elems :
       mDoc' = [mDoc EXCEPT !.frames[fi].elems[ei].visible = ~@]
  /\ UNCHANGED <<mCfg, mPolls, mOut, mMissed>>
  /\ ModalOnly

ModalNext == ModalPoll \/ ModalTimeout \/ ModalDomChange

\* ------------------------------------------------------------------------
\* _collect_teacher_tabs
\* ------------------------------------------------------------------------
\* Labels (the portal's Chinese texts, transliterated): two teacher names, the
\* empty text, and members of skip_text.
SkipText == { "tijiao", "quxiao", "guanbi", "baocun",
              "henmanyi", "manyi", "yiban", "bumanyi", "henbumanyi" }
TxtRaises == "<inner_text raises>"
TabTexts == { TxtRaises, "", "zhangsan", "lisi", "tijiao", "henmanyi" }
TabBand == 220       \* box.y > top_y + 220: likely question options
\* h.bounding_box(): a box, or NoBox when it returns None or raises
NoBox == [has |-> FALSE, x |-> 0, y |-> 0]
Box(x, y) == [has |-> TRUE, x |-> x, y |-> y]
TabBoxes == {NoBox} \cup { Box(x, y) : x \in {10, 50}, y \in {150, 300} }
TabHandle == [txt : TabTexts, box : TabBoxes]
\* The first argument: a locator of the modal element, whose bounding_box()
\* answers with the element's box ("ok"), with None or by raising; or a
\* Page/Frame scope, which has no bounding_box method at all (AttributeError).
\* top is the y coordinate of the container's top edge in the viewport.
TabContainers ==
  { c \in [kind : {"locator", "scope"}, bbox : {"ok", "none", "raise"}, top : {0 - 100, 0}] :
      /\ c.kind = "scope" => c.bbox = "raise"
      /\ c.bbox = "none" => c.top = 0 }
TabInputs ==
  [container : TabContainers,
   handles : UNION { [1..n -> TabHandle] : n \in 0..MaxTabCands }]

\* try: top_y = float((modal_locator.bounding_box() or {}).get("y", 0.0))
\* except Exception: top_y = 0.0
TopY(c) == IF c.bbox = "ok" THEN c.top ELSE 0

\* selected.sort(key=lambda t: t[0]): a stable sort by x
RECURSIVE InsertByX(_, _)
InsertByX(sorted, t) ==
  IF sorted = <<>> THEN <<t>>
  ELSE IF t.x < sorted[1].x THEN <<t>> \o sorted
  ELSE <<sorted[1]>> \o InsertByX(Tail(sorted), t)
RECURSIVE SortByX(_)
SortByX(sel) ==
  IF sel = <<>> THEN <<>>
  ELSE InsertByX(SortByX(SubSeq(sel, 1, Len(sel) - 1)), sel[Len(sel)])

\* The loop body "for h in handles", from handle i with the tabs selected and
\* the texts seen so far.
RECURSIVE SelectTabsNoSeen(_, _, _, _, _)
SelectTabsNoSeen(hs, topY, i, selected, seen) ==
  IF i > Len(hs) THEN selected
  ELSE LET h == hs[i] IN
       IF h.txt = TxtRaises \/ h.txt = "" \/ h.txt \in SkipText
       THEN SelectTabsNoSeen(hs, topY, i + 1, selected, seen)
       ELSE IF h.box.has /\ h.box.y > topY + TabBand
       THEN SelectTabsNoSeen(hs, topY, i + 1, selected, seen)
       ELSE SelectTabsNoSeen(hs, topY, i + 1,
              Append(selected, [x |-> IF h.box.has THEN h.box.x ELSE 0, txt |-> h.txt, h |-> i]),
              seen \cup {h.txt})

RECURSIVE SelectTabs(_, _, _, _, _)
SelectTabs(hs, topY, i, selected, seen) ==
  IF i > Len(hs) THEN selected
  ELSE LET h == hs[i] IN
       IF h.txt = TxtRaises                                  \* except: continue
       THEN SelectTabs(hs, topY, i + 1, selected, seen)
       ELSE IF h.txt = "" \/ h.txt \in SkipText \/ h.txt \in seen
       THEN SelectTabs(hs, topY, i + 1, selected, seen)
       ELSE IF h.box.has /\ h.box.y > topY + TabBand
       THEN SelectTabs(hs, topY, i + 1, selected, seen)
       ELSE SelectTabs(hs, topY, i + 1,
              Append(selected, [x |-> IF h.box.has THEN h.box.x ELSE 0, txt |-> h.txt, h |-> i]),
              seen \cup {h.txt})

\* return [(t[1], t[2]) for t in sorted selected]
CollectTeacherTabs(in) ==
  LET sorted == SortByX(SelectTabs(in.handles, TopY(in.container), 1, <<>>, {}))
  IN  [k \in DOMAIN sorted |-> [txt |-> sorted[k].txt, h |-> sorted[k].h]]

TabsInit == tbIn \in TabInputs /\ tbOut = Unset
TabsIdle == tbIn = <<>> /\ tbOut = Unset

CallCollectTeacherTabs ==
  /\ tbOut = Unset
  /\ tbOut' = Ret(CollectTeacherTabs(tbIn))
  /\ UNCHANGED tbIn
  /\ TabsOnly

TabsNext == CallCollectTeacherTabs

\* ------------------------------------------------------------------------
\* load_config, and the two places that draw from the configuration
\* ------------------------------------------------------------------------
\* A key of the YAML document: absent, or present with a value.
Absent == [has |-> FALSE, v |-> 0]
AbsentList == [has |-> FALSE, v |-> <<>>]
Given(v) == [has |-> TRUE, v |-> v]
DefaultMin == 100    \* delays.get("min", 100)
DefaultMax == 350    \* delays.get("max", 350)
\* Items of a comment_templates list: strings, or a YAML number; str(x) is
\* the text written for it.
RawItems == { "s:good", "s:fine", "n:7" }
Str(x) == CASE x = "s:good" -> "good" [] x = "s:fine" -> "fine" [] x = "n:7" -> "7"
DelayValues == { Absent } \cup { Given(v) : v \in (0 - 1)..MaxDelay }
RawConfigs ==
  [min : DelayValues, max : DelayValues,
   templates : { AbsentList } \cup
               { Given(l) : l \in UNION { [1..n -> RawItems] : n \in 0..MaxTemplates } }]

\* data.get(key, default)
GetOr(field, default) == IF field.has THEN field.v ELSE default

\* The fields of AppConfig the flow draws from
BuildConfig(r) ==
  [comment_templates |->
      LET l == GetOr(r.templates, <<>>) IN [i \in DOMAIN l |-> Str(l[i])],
   delays_ms |-> [min |-> GetOr(r.min, DefaultMin), max |-> GetOr(r.max, DefaultMax)]]

LoadConfigNoDelayCheck(r) ==
  LET c == BuildConfig(r) IN
  IF c.comment_templates = <<>> THEN Raised ELSE Ret(c)

LoadConfigNoTemplateCheck(r) ==
  LET c == BuildConfig(r) IN
  IF c.delays_ms.min < 0 \/ c.delays_ms.max < c.delays_ms.min THEN Raised ELSE Ret(c)

LoadConfig(r) ==
  LET c == BuildConfig(r) IN
  IF c.comment_templates = <<>> THEN Raised                         \* ValueError
  ELSE IF c.delays_ms.min < 0 \/ c.delays_ms.max < c.delays_ms.min
       THEN Raised                                                  \* ValueError
  ELSE Ret(c)

\* random.randint(cfg.delays_ms.min, cfg.delays_ms.max): both ends included
RandDelayValues(c) == c.delays_ms.min..c.delays_ms.max
\* random.choice(cfg.comment_templates)
CommentChoices(c) == { c.comment_templates[i] : i \in DOMAIN c.comment_templates }

NoValue == [has |-> FALSE, v |-> ""]
ConfigInit == raw \in RawConfigs /\ cfg = Unset /\ delay = Absent /\ comment = NoValue
ConfigIdle == raw = <<>> /\ cfg = Unset /\ delay = Absent /\ comment = NoValue

CallLoadConfig ==
  /\ cfg = Unset
  /\ cfg' = LoadConfig(raw)
  /\ UNCHANGED <<raw, delay, comment>>
  /\ ConfigOnly

\* _rand_delay(cfg).  Every call draws afresh from the same range, so the
\* model follows one draw per run of the configuration.
RandDelay ==
  /\ cfg.st = "return" /\ ~delay.has
  /\ \E d \in RandDelayValues(cfg.val) : delay' = Given(d)
  /\ UNCHANGED <<raw, cfg, comment>>
  /\ ConfigOnly

\* comment.fill(random.choice(cfg.comment_templates))
FillComment ==
  /\ cfg.st = "return"
  /\ \E t \in CommentChoices(cfg.val) : comment' = [has |-> TRUE, v |-> t]
  /\ UNCHANGED <<raw, cfg, delay>>
  /\ ConfigOnly

ConfigNext == CallLoadConfig \/ RandDelay \/ FillComment

\* ------------------------------------------------------------------------
\* _prefill_active_block and its _click_questions
\* ------------------------------------------------------------------------
\* Label texts are sequences of characters (the portal's rating options,
\* transliterated character by character), so that :has-text's substring
\* matching is computed and not assumed.
HenManYi == <<"hen", "man", "yi">>
ManYi == <<"man", "yi">>
YiBan == <<"yi", "ban">>
BuManYi == <<"bu", "man", "yi">>
HenBuManYi == <<"hen", "bu", "man", "yi">>
YouXiu == <<"you", "xiu">>
\* cfg.rating_text: the default "很满意", or a configured "满意" or "优秀"
RatingTexts == { HenManYi, ManYi, YouXiu }
\* The options of a question in document order, one radio input each
OptionLists ==
  { <<>>,
    <<HenManYi, ManYi, YiBan, BuManYi, HenBuManYi>>,
    <<YiBan, BuManYi>>,
    <<BuManYi, ManYi, HenManYi>> }
\* A question element: its options, whether the options carry <label>s, and
\* whether cfg.selectors.question_block matches the element.
Question ==
  { q \in [opts : OptionLists, labelled : BOOLEAN, cfgMatch : BOOLEAN] :
      q.opts = <<>> => q.labelled }
\* The text of the progress indicator (cfg.selectors.done_text), if present,
\* as _parse_progress reads it: no "d/t" in it, or the pair (done, total).
Progress ==
  { [present |-> FALSE, parsed |-> FALSE, done |-> 0, total |-> 0],
    [present |-> TRUE, parsed |-> FALSE, done |-> 0, total |-> 0] } \cup
  { [present |-> TRUE, parsed |-> TRUE, done |-> d, total |-> 1] : d \in 0..2 }
FillInputs ==
  [rating : RatingTexts,
   questions : UNION { [1..n -> Question] : n \in 0..MaxQuestions },
   progress : Progress]

\* :has-text(t): the element's text contains t
HasText(text, t) ==
  \E k \in 0..(Len(text) - Len(t)) : SubSeq(text, k + 1, k + Len(t)) = t
\* q.locator("input[type=radio]").count() and q.locator("label").count()
RadioCount(q) == Len(q.opts)
LabelCount(q) == IF q.labelled THEN Len(q.opts) ELSE 0
\* q.locator('label:has-text("<rating_text>")'): the matching labels
PreferredLabels(q, rating) ==
  { i \in 1..LabelCount(q) : HasText(q.opts[i], rating) }
\* The option whose radio ends up selected by the body of the loop
ClickedOption(q, rating) ==
  IF PreferredLabels(q, rating) # {}
  THEN Min(PreferredLabels(q, rating))            \* _safe_click(preferred.first)
  ELSE IF LabelCount(q) # 0
  THEN LabelCount(q)                              \* labels.nth(labels.count() - 1)
  ELSE RadioCount(q)                              \* radios.nth(radios.count() - 1).check()

\* active.locator(cfg.selectors.question_block)
RECURSIVE IndicesWhere(_, _, _)
IndicesWhere(qs, i, f) ==
  IF i > Len(qs) THEN <<>>
  ELSE IF (IF f = "cfg" THEN qs[i].cfgMatch ELSE RadioCount(qs[i]) > 0)
       THEN <<i>> \o IndicesWhere(qs, i + 1, f)
       ELSE IndicesWhere(qs, i + 1, f)
ConfiguredQuestions(in) == IndicesWhere(in.questions, 1, "cfg")
\* active.locator(".tm:has(input[type=radio])")
AllQuestions(in) == IndicesWhere(in.questions, 1, "radio")

\* the retry test without the comparison of done and total
RetryIfPresent(in) == in.progress.present /\ AllQuestions(in) # <<>>
\* parsed and parsed[0] < parsed[1], then all_questions.count()
RetryNeeded(in) ==
  /\ in.progress.present /\ in.progress.parsed
  /\ in.progress.done < in.progress.total
  /\ AllQuestions(in) # <<>>

NoCount == [filled |-> 0, skipped |-> 0]
FillInit ==
  /\ pfIn \in FillInputs /\ pfPc = "start" /\ pfList = <<>> /\ pfI = 1
  /\ pfCount = NoCount /\ pfLog = <<>>
FillIdle ==
  /\ pfIn = <<>> /\ pfPc = "idle" /\ pfList = <<>> /\ pfI = 1
  /\ pfCount = NoCount /\ pfLog = <<>>

\* expect(active).to_be_visible(), then questions = active.locator(...)
PfExpectActive ==
  /\ pfPc = "start"
  /\ \E visible \in BOOLEAN :
       IF visible
       THEN pfPc' = "pass1" /\ pfList' = ConfiguredQuestions(pfIn)
       ELSE pfPc' = "raised" /\ UNCHANGED pfList
  /\ UNCHANGED <<pfIn, pfI, pfCount, pfLog>>
  /\ FillOnly

\* One iteration of "for i in range(q_total)": skip a question without radio
\* inputs, else click one option (the click may raise), delay, count it.
PfQuestion ==
  /\ pfPc \in {"pass1", "pass2"} /\ pfI <= Len(pfList)
  /\ LET q == pfIn.questions[pfList[pfI]] IN
     IF RadioCount(q) = 0
     THEN /\ pfCount' = [pfCount EXCEPT !.skipped = @ + 1]
          /\ pfI' = pfI + 1
          /\ UNCHANGED <<pfPc, pfLog>>
     ELSE \E clicked \in BOOLEAN :
            IF clicked
            THEN /\ pfLog' = Append(pfLog, [k |-> "click", pass |-> pfPc, q |-> pfList[pfI],
                                            opt |-> ClickedOption(q, pfIn.rating)])
                 /\ pfCount' = [pfCount EXCEPT !.filled = @ + 1]
                 /\ pfI' = pfI + 1
                 /\ UNCHANGED pfPc
            ELSE pfPc' = "raised" /\ UNCHANGED <<pfI, pfCount, pfLog>>
  /\ UNCHANGED <<pfIn, pfList>>
  /\ FillOnly

\* End of the first pass: expect(comment).to_be_visible(); comment.fill(...)
PfComment ==
  /\ pfPc = "pass1" /\ pfI > Len(pfList)
  /\ \E visible \in BOOLEAN :
       IF visible
       THEN /\ pfPc' = "progress"
            /\ pfLog' = Append(pfLog, [k |-> "comment", pass |-> pfPc, q |-> 0, opt |-> 0])
       ELSE pfPc' = "raised" /\ UNCHANGED pfLog
  /\ UNCHANGED <<pfIn, pfList, pfI, pfCount>>
  /\ FillOnly

\* The progress indicator: retry once with the broadened selector, or return
PfProgress ==
  /\ pfPc = "progress"
  /\ IF RetryNeeded(pfIn)
     THEN /\ pfPc' = "pass2" /\ pfList' = AllQuestions(pfIn)
          /\ pfI' = 1 /\ pfCount' = NoCount
     ELSE pfPc' = "done" /\ UNCHANGED <<pfList, pfI, pfCount>>
  /\ UNCHANGED <<pfIn, pfLog>>
  /\ FillOnly

\* End of the retry pass: the function returns
PfRetryDone ==
  /\ pfPc = "pass2" /\ pfI > Len(pfList)
  /\ pfPc' = "done"
  /\ UNCHANGED <<pfIn, pfList, pfI, pfCount, pfLog>>
  /\ FillOnly

FillNext == PfExpectActive \/ PfQuestion \/ PfComment \/ PfProgress \/ PfRetryDone

\* ------------------------------------------------------------------------
\* assist_all_pages / assist_page: the whole flow against the portal
\* ------------------------------------------------------------------------
\* The portal is the environment.  It displays one page of the list at a
\* time; a page starts with rows 1..rows carrying a pending affordance and
\* the program always opens the first one left.  A click on it makes the
\* portal bring up the rating modal; a click on submit makes it store the
\* rating, possibly ask for a confirmation, take the modal down and remove
\* the row's affordance.  With coop the portal does each of these in time;
\* without it, an awaited condition may fail to come and the wait raises.
NoTabs == [kind |-> "none", gh |-> <<>>, n |-> 0]
GhLists == UNION {[1..k -> BOOLEAN] : k \in 1..MaxTabs}
TabKinds ==
  {[kind |-> "explicit", gh |-> g, n |-> 0] : g \in GhLists}
    \cup {[kind |-> "heuristic", gh |-> <<>>, n |-> k] : k \in 0..MaxTabs}
\* The _prefill_active_block calls assist_page makes for a modal with tabs t.
ExpectedFills(t) ==
  IF t.kind = "explicit" THEN Cardinality({i \in 1..Len(t.gh) : t.gh[i]})
  ELSE IF t.n > 1 THEN t.n ELSE 1

\* A next-page control: its class attribute, its parent's class attribute
\* (the read of which may raise) and its aria-disabled attribute.
NoCtl == [present |-> FALSE, cls |-> "none", parent |-> "plain", aria |-> "none"]
ClassAttrs == {"none", "next", "next disabled"}
AriaAttrs == {"none", "false", "true", "TRUE"}
Ctls ==
  {NoCtl} \cup [present : {TRUE}, cls : ClassAttrs,
                parent : {"plain", "disabled", "raises"}, aria : AriaAttrs]
\* What the two lookups of the next-page control can find: any control by
\* text when the id matches nothing; next to a control found by id, no
\* control by text, an enabled one or a disabled one.
PlainCtl == [present |-> TRUE, cls |-> "next", parent |-> "plain", aria |-> "none"]
OffCtl == [present |-> TRUE, cls |-> "next disabled", parent |-> "plain", aria |-> "none"]
CtlPairs ==
  {<<a, b>> \in Ctls \X Ctls : a.present => b \in {NoCtl, PlainCtl, OffCtl}}
\* "disabled" in (el.get_attribute("class") or "")
HasDisabled(c) == c = "next disabled"
\* the parent's classes as read inside try/except: "" when the read raises
ParentClasses(ctl) == IF ctl.parent = "raises" THEN "none" ELSE
                      IF ctl.parent = "disabled" THEN "next disabled" ELSE "next"
\* aria_disabled.lower()
Lower(a) == IF a = "TRUE" THEN "true" ELSE a
\* next_btn: #kcpjDataTable_next when it matches, else the text lookup
NextBtn(byId, byText) == IF byId.present THEN byId ELSE byText
\* the test of line 733, without the aria-disabled disjunct
DisabledLookNoAria(ctl) == HasDisabled(ctl.cls) \/ HasDisabled(ParentClasses(ctl))
DisabledLook(ctl) ==
  HasDisabled(ctl.cls) \/ HasDisabled(ParentClasses(ctl)) \/ Lower(ctl.aria) = "true"
\* while True of assist_page: btns.count() == 0 ends the item loop
PendingLeftButLast(f, r) == f < r
PendingLeft(f, r) == f <= r
\* btn = btns.first: of the rows f..r still pending, the one that is clicked
LastPending(f, r) == r
FirstPending(f, r) == f

NoSeen == [has |-> FALSE, byId |-> NoCtl, byText |-> NoCtl, at |-> 0]
Seen(a, b, p) == [has |-> TRUE, byId |-> a, byText |-> b, at |-> p]
NoItem == [item |-> <<0, 0>>, fills |-> 0, submits |-> 0]
\* What the program does to an item, as it is logged: the name of the step
\* and the tab it is about (0: none).
Ev(name, i) == [e |-> name, i |-> i]
NoMiss == [a |-> "none", b |-> "none"]
PageItems(p, k) == {<<p, r>> : r \in 1..k}

FlowInit ==
  /\ coop \in BOOLEAN
  /\ pc = "goto" /\ pg = 0 /\ rows = 0 /\ first = 1
  /\ modal = "closed" /\ tabs = NoTabs /\ ti = 0 /\ polls = 0
  /\ confirmed = FALSE /\ cur = NoItem
  /\ existed = {} /\ processed = {} /\ drained = {} /\ anomaly = FALSE
  /\ nextSeen = NoSeen /\ nextAct = "none"
  /\ trace = <<>> /\ owed = "none" /\ missed = NoMiss
FlowIdle ==
  /\ coop = TRUE
  /\ pc = "idle" /\ pg = 0 /\ rows = 0 /\ first = 1
  /\ modal = "closed" /\ tabs = NoTabs /\ ti = 0 /\ polls = 0
  /\ confirmed = FALSE /\ cur = NoItem
  /\ existed = {} /\ processed = {} /\ drained = {} /\ anomaly = FALSE
  /\ nextSeen = NoSeen /\ nextAct = "none"
  /\ trace = <<>> /\ owed = "none" /\ missed = NoMiss

\* A Playwright call that raises ends the run: nothing in assist_all_pages or
\* assist_page catches it.
Raise == pc' = "raised"
portalVars == <<pg, rows, first, modal, tabs>>
histVars == <<cur, existed, processed, drained, anomaly, nextSeen, nextAct>>
loopVars == <<ti, polls, confirmed>>
logVars == <<trace, owed, missed>>
NoLog == UNCHANGED logVars
\* a step that is not a click
LogEvent(ev) == trace' = Append(trace, ev) /\ UNCHANGED <<owed, missed>>
\* a click made while the click o is not yet followed by a _rand_delay
Miss(o, name) == IF missed = NoMiss /\ o # "none" THEN [a |-> o, b |-> name] ELSE missed
\* a click-like interaction, logged with the events evs
LogClick(evs, name) ==
  /\ trace' = trace \o evs
  /\ owed' = name
  /\ missed' = Miss(owed, name)
\* _prefill_active_block for tab i, straight after a _rand_delay or not: when
\* the block has a question with radios, its option clicks are each followed
\* by a _rand_delay (_click_questions); the comment is filled without a click.
LogPrefill(i, afterDelay) ==
  \E clicks \in BOOLEAN :
    LET o == IF afterDelay THEN "none" ELSE owed IN
    /\ trace' = Append(trace, Ev("fill", i))
    /\ owed' = IF clicks THEN "none" ELSE o
    /\ missed' = IF clicks THEN Miss(o, "question") ELSE missed

\* page.goto(cfg.list_url): the portal displays page 1
Goto ==
  /\ pc = "goto"
  /\ \/ /\ \E k \in 0..MaxRows :
             /\ pg' = 1 /\ rows' = k /\ first' = 1
             /\ existed' = PageItems(1, k)
        /\ pc' = "resolve"
        /\ UNCHANGED <<modal, tabs, cur, processed, drained, anomaly, nextSeen, nextAct>>
     \/ ~coop /\ Raise /\ UNCHANGED <<portalVars, histVars>>
  /\ UNCHANGED <<coop, loopVars>> /\ NoLog /\ FlowOnly
\* scope = _resolve_scope_fast(page, cfg, logger): never raises
FlowResolveScope ==
  /\ pc = "resolve"
  /\ pc' = "wait_table"
  /\ nextSeen' = NoSeen /\ nextAct' = "none"
  /\ UNCHANGED <<coop, portalVars, loopVars, cur, existed, processed, drained, anomaly>>
  /\ NoLog /\ FlowOnly
\* _wait_for_table(page, cfg, logger, timeout_ms=30_000)
FlowWaitForTable ==
  /\ pc = "wait_table"
  /\ (pc' = "count" \/ (~coop /\ Raise))
  /\ UNCHANGED <<coop, portalVars, loopVars, histVars>> /\ NoLog /\ FlowOnly
\* btns.count() == 0: return to assist_all_pages (a new iteration starts: the
\* log of the item before is dropped)
CountPending ==
  /\ pc = "count"
  /\ pc' = IF PendingLeft(first, rows) THEN "open" ELSE "next"
  /\ UNCHANGED <<coop, portalVars, loopVars, histVars>> /\ trace' = <<>> /\ missed' = NoMiss /\ UNCHANGED owed /\ FlowOnly
\* _safe_click(btns.first): the portal starts bringing up the modal
OpenPending ==
  /\ pc = "open"
  /\ \/ /\ pc' = "wait_modal"
        /\ modal' = "opening"
        /\ cur' = [item |-> <<pg, FirstPending(first, rows)>>, fills |-> 0,
                   submits |-> 0]
        /\ anomaly' = (anomaly \/ <<pg, FirstPending(first, rows)>> \in processed)
        /\ trace' = <<Ev("pending", 0)>>
        /\ owed' = "pending" /\ missed' = Miss(owed, "pending")
        /\ UNCHANGED <<pg, rows, first, tabs, existed, processed, drained, nextSeen, nextAct>>
     \/ ~coop /\ Raise /\ UNCHANGED <<portalVars, histVars>> /\ NoLog
  /\ UNCHANGED <<coop, loopVars>> /\ FlowOnly
\* _wait_for_modal(page, cfg, logger, timeout_ms=30_000)
FlowWaitForModal ==
  /\ pc = "wait_modal"
  /\ \/ modal = "open" /\ pc' = "wait_tabs" /\ LogEvent(Ev("modal", 0))
     \/ ~coop /\ modal # "open" /\ Raise /\ NoLog
  /\ UNCHANGED <<coop, portalVars, loopVars, histVars>> /\ FlowOnly
\* explicit_tabs = _wait_for_explicit_teacher_tabs(...); if explicit_tabs.count()
WaitExplicitTabs ==
  /\ pc = "wait_tabs"
  /\ pc' = IF tabs.kind = "explicit" THEN "x_tab" ELSE "h_collect"
  /\ ti' = 1
  /\ UNCHANGED <<coop, portalVars, polls, confirmed, histVars>> /\ NoLog /\ FlowOnly
\* if not gh: continue.  The identifiers are the tabs' keys: the locator
\* .jsxx[data-gh="gh"] of a tab that carries one denotes that tab.
AnyId(gh, i) == TRUE
HasId(gh, i) == gh[i]
\* for gh, name in tab_info: if not gh: continue; _safe_click(tab)
ExplicitTab ==
  /\ pc = "x_tab" /\ ti <= Len(tabs.gh)
  /\ \/ ~HasId(tabs.gh, ti) /\ ti' = ti + 1 /\ pc' = "x_tab" /\ NoLog
     \/ /\ HasId(tabs.gh, ti) /\ ti' = ti /\ pc' = "x_active"
        /\ LogClick(<<Ev("tab_click", ti)>>, "tab")
     \/ ~coop /\ HasId(tabs.gh, ti) /\ ti' = ti /\ Raise /\ NoLog
  /\ UNCHANGED <<coop, portalVars, polls, confirmed, histVars>> /\ FlowOnly
\* expect(... .jsxx.active[data-gh=gh]).to_be_visible(timeout=5_000)
ExplicitActive ==
  /\ pc = "x_active"
  /\ \/ pc' = "x_fill" /\ LogEvent(Ev("active", ti))
     \/ ~coop /\ Raise /\ NoLog
  /\ UNCHANGED <<coop, portalVars, loopVars, histVars>> /\ FlowOnly
\* _prefill_active_block(modal, cfg, logger) for the tab just activated
ExplicitFill ==
  /\ pc = "x_fill"
  /\ \/ /\ pc' = "x_tab" /\ ti' = ti + 1
        /\ cur' = [cur EXCEPT !.fills = @ + 1]
        /\ LogPrefill(ti, FALSE)
     \/ ~coop /\ Raise /\ UNCHANGED <<ti, cur>> /\ NoLog
  /\ UNCHANGED <<coop, portalVars, polls, confirmed, existed, processed,
                 drained, anomaly, nextSeen, nextAct>>
  /\ FlowOnly
\* the for loop over tab_info is exhausted
ExplicitDone ==
  /\ pc = "x_tab" /\ ti > Len(tabs.gh)
  /\ pc' = "submit"
  /\ UNCHANGED <<coop, portalVars, loopVars, histVars>> /\ NoLog /\ FlowOnly
\* teacher_tabs = _collect_teacher_tabs(modal_scope, logger); len(teacher_tabs) > 1
IteratesAny(n) == n > 0
Iterates(n) == n > 1
HeuristicCollect ==
  /\ pc = "h_collect"
  /\ pc' = IF Iterates(tabs.n) THEN "h_tab" ELSE "h_once"
  /\ UNCHANGED <<coop, portalVars, loopVars, histVars>> /\ NoLog /\ FlowOnly
\* for name, h in teacher_tabs: _safe_click_handle(h); _wait_tab_active_handle(h)
HeuristicTab ==
  /\ pc = "h_tab" /\ ti <= tabs.n
  /\ \/ /\ pc' = "h_fill"
        /\ LogClick(<<Ev("tab_click", ti), Ev("waited", ti)>>, "tab")
     \/ ~coop /\ Raise /\ NoLog
  /\ UNCHANGED <<coop, portalVars, loopVars, histVars>> /\ FlowOnly
\* _rand_delay(cfg); _prefill_active_block(modal, cfg, logger)
HeuristicFill ==
  /\ pc = "h_fill"
  /\ \/ /\ pc' = "h_tab" /\ ti' = ti + 1
        /\ cur' = [cur EXCEPT !.fills = @ + 1]
        /\ LogPrefill(ti, TRUE)
     \/ ~coop /\ Raise /\ UNCHANGED <<ti, cur>> /\ NoLog
  /\ UNCHANGED <<coop, portalVars, polls, confirmed, existed, processed,
                 drained, anomaly, nextSeen, nextAct>>
  /\ FlowOnly
HeuristicDone ==
  /\ pc = "h_tab" /\ ti > tabs.n
  /\ pc' = "submit"
  /\ UNCHANGED <<coop, portalVars, loopVars, histVars>> /\ NoLog /\ FlowOnly
\* one tab or none: _prefill_active_block(modal, cfg, logger) without a click
FillOnce ==
  /\ pc = "h_once"
  /\ \/ pc' = "submit" /\ cur' = [cur EXCEPT !.fills = @ + 1] /\ LogPrefill(0, FALSE)
     \/ ~coop /\ Raise /\ UNCHANGED cur /\ NoLog
  /\ UNCHANGED <<coop, portalVars, loopVars, existed, processed, drained,
                 anomaly, nextSeen, nextAct>>
  /\ FlowOnly
\* expect(submit_btn).to_be_visible(); _safe_click(submit_btn, logger)
Submit ==
  /\ pc = "submit"
  /\ \/ /\ pc' = "confirm"
        /\ modal' = "submitted"
        /\ cur' = [cur EXCEPT !.submits = @ + 1]
        /\ polls' = 0 /\ confirmed' = FALSE
        /\ LogClick(<<Ev("submit", 0)>>, "submit")
     \/ ~coop /\ Raise /\ UNCHANGED <<modal, cur, polls, confirmed>> /\ NoLog
  /\ UNCHANGED <<coop, pg, rows, first, tabs, ti, existed, processed, drained,
                 anomaly, nextSeen, nextAct>>
  /\ FlowOnly
\* One iteration of the confirmation loop: press Enter, click a visible
\* confirm control if there is one (a failing click is swallowed), leave the
\* loop when the modal is gone, otherwise sleep; the deadline ends the loop.
ConfirmLoop ==
  /\ pc = "confirm"
  /\ \/ /\ polls < MaxPolls /\ modal = "dialog"
        /\ \/ confirmed' = TRUE /\ modal' = "confirmed" /\ pc' = "expect_hidden"
              /\ polls' = polls /\ LogClick(<<Ev("confirm", 0)>>, "confirm")
           \/ /\ ~coop /\ UNCHANGED <<confirmed, modal, pc>> /\ polls' = polls + 1
              /\ NoLog
     \/ /\ polls < MaxPolls /\ modal = "closed"
        /\ pc' = "expect_hidden" /\ UNCHANGED <<confirmed, modal, polls>> /\ NoLog
     \/ /\ polls < MaxPolls /\ modal \notin {"dialog", "closed"}
        /\ polls' = polls + 1 /\ UNCHANGED <<confirmed, modal, pc>> /\ NoLog
     \/ /\ polls = MaxPolls
        /\ pc' = "expect_hidden" /\ UNCHANGED <<confirmed, modal, polls>> /\ NoLog
  /\ UNCHANGED <<coop, pg, rows, first, tabs, ti, histVars>> /\ FlowOnly
\* Where a modal still visible at the end of the 10 s leaves the program:
\* the AssertionError of expect() is caught nowhere (the other outcome would
\* be to go on with the item loop).
OnHiddenTimeoutGoOn == "count"
OnHiddenTimeout == "raised"
\* expect(modal).to_be_hidden(timeout=10_000); _rand_delay(cfg); next item
ExpectHidden ==
  /\ pc = "expect_hidden"
  /\ \/ /\ modal = "closed"
        /\ pc' = "count"
        /\ LET whole == /\ cur.fills = ExpectedFills(tabs)
                        /\ cur.submits = 1
                        /\ cur.item \notin processed
           IN  /\ processed' = IF whole THEN processed \cup {cur.item} ELSE processed
               /\ anomaly' = (anomaly \/ ~whole)
        /\ cur' = NoItem /\ tabs' = NoTabs
        /\ trace' = Append(trace, Ev("closed", 0))
        /\ owed' = "none" /\ UNCHANGED missed
     \/ /\ ~coop /\ modal # "closed" /\ pc' = OnHiddenTimeout
        /\ UNCHANGED <<cur, tabs, processed, anomaly>> /\ NoLog
  /\ UNCHANGED <<coop, pg, rows, first, modal, loopVars, existed, drained,
                 nextSeen, nextAct>>
  /\ FlowOnly
\* The pagination decision of assist_all_pages (lines 716-737).  The list
\* has at most MaxPages pages: on the last one the control is absent or
\* disabled.  A click displays the next page.
PortalDisabled(el) ==
  \/ ~el.present \/ el.cls = "next disabled" \/ el.parent = "disabled"
  \/ el.aria \in {"true", "TRUE"}
NextPage ==
  /\ pc = "next"
  /\ \E ab \in CtlPairs :
       LET a == ab[1]
           b == ab[2]
           el == NextBtn(a, b) IN
       /\ pg = MaxPages => PortalDisabled(el)
       /\ nextSeen' = Seen(a, b, pg)
       /\ IF ~el.present \/ DisabledLook(el)
          THEN /\ pc' = "done" /\ nextAct' = "return"
               /\ drained' = IF processed = existed THEN drained \cup {pg} ELSE drained
               /\ UNCHANGED <<pg, rows, first, existed, processed>> /\ NoLog
          ELSE /\ nextAct' = "click"
               /\ LogClick(<<>>, "next")
               /\ \/ /\ pg < MaxPages
                     /\ \E k \in 0..MaxRows :
                          /\ pg' = pg + 1 /\ rows' = k /\ first' = 1
                          /\ existed' = PageItems(pg + 1, k)
                     /\ processed' = {}
                     /\ drained' = IF processed = existed THEN drained \cup {pg}
                                                            ELSE drained
                     /\ pc' = "resolve"
                  \/ /\ ~coop /\ Raise
                     /\ UNCHANGED <<pg, rows, first, existed, processed, drained>>
  /\ UNCHANGED <<coop, modal, tabs, loopVars, cur, anomaly>>
  /\ FlowOnly

\* The portal brings up the modal of the row whose affordance was clicked.
PortalOpenModal ==
  /\ modal = "opening"
  /\ modal' = "open" /\ tabs' \in TabKinds
  /\ UNCHANGED <<coop, pc, pg, rows, first, loopVars, histVars>> /\ NoLog /\ FlowOnly
\* The portal asks for a confirmation of the submission.
PortalAskConfirm ==
  /\ modal = "submitted"
  /\ modal' = "dialog"
  /\ UNCHANGED <<coop, pc, pg, rows, first, tabs, loopVars, histVars>> /\ NoLog /\ FlowOnly
\* The portal takes the modal down and removes the row's pending affordance:
\* at once, after the confirmation, or (a cooperative portal) after a
\* dialog dismissed by the Enter key or by itself.
PortalClose ==
  /\ modal \in {"submitted", "confirmed"} \/ (coop /\ modal = "dialog")
  /\ modal' = "closed" /\ first' = first + 1
  /\ UNCHANGED <<coop, pc, pg, rows, tabs, loopVars, histVars>> /\ NoLog /\ FlowOnly

FlowProgram ==
  \/ Goto \/ FlowResolveScope \/ FlowWaitForTable \/ CountPending \/ OpenPending
  \/ FlowWaitForModal \/ WaitExplicitTabs \/ ExplicitTab \/ ExplicitActive
  \/ ExplicitFill \/ ExplicitDone \/ HeuristicCollect \/ HeuristicTab
  \/ HeuristicFill \/ HeuristicDone \/ FillOnce \/ Submit \/ ConfirmLoop
  \/ ExpectHidden \/ NextPage
PortalNext == PortalOpenModal \/ PortalAskConfirm \/ PortalClose
Next == FlowProgram \/ PortalNext

\* ------------------------------------------------------------------------
\* _safe_click / _safe_click_handle: the click escalation ladder
\* ------------------------------------------------------------------------
\* A Playwright call on the target ends normally ("ok"), with a
\* PlaywrightTimeoutError ("timeout") or with another Playwright error
\* ("error").  The two evaluate calls of step 3 run script on the element:
\* they fail with the platform's error when the target is no longer in the
\* document ("removed"), and el.click() fails when the element has no click
\* method ("unavailable"); dispatchEvent exists on every element.  Script run
\* through a handle on a detached element may also just have no effect.
ClickTargets == [removed : BOOLEAN, hasClick : BOOLEAN]
CallOutcomes == {"ok", "timeout", "error"}
ClickOutcomes(t) == IF t.removed THEN {"timeout", "error"} ELSE CallOutcomes
Detached(via) == IF via = "handle" THEN {"removed", "ok"} ELSE {"removed"}
InvokeOutcomes(via, t) ==
  IF t.removed THEN Detached(via) ELSE IF t.hasClick THEN {"ok"} ELSE {"unavailable"}
DispatchOutcomes(via, t) == IF t.removed THEN Detached(via) ELSE {"ok"}
Attempt(step, res) == [step |-> step, res |-> res]
\* the handlers: except PlaywrightTimeoutError / except Exception / none
CatchesAny(res) == TRUE
CatchesNone(res) == FALSE
ClickCatches(res) == res = "timeout"
BestEffortCatches(res) == TRUE
InvokeCatches(res) == TRUE

ClickInit ==
  /\ ckVia \in {"locator", "handle"}
  /\ ckTarget \in ClickTargets
  /\ ckPc = "click" /\ ckLog = <<>> /\ ckErr = "none"
ClickIdle ==
  /\ ckVia = "locator"
  /\ ckTarget = [removed |-> FALSE, hasClick |-> TRUE]
  /\ ckPc = "idle" /\ ckLog = <<>> /\ ckErr = "none"

\* step 1: locator.click(timeout=2_000)
CkClick ==
  /\ ckPc = "click"
  /\ \E r \in ClickOutcomes(ckTarget) :
       /\ ckLog' = Append(ckLog, Attempt("click", r))
       /\ IF r = "ok" THEN ckPc' = "returned" /\ ckErr' = ckErr
          ELSE IF ClickCatches(r) THEN ckPc' = "scroll" /\ ckErr' = ckErr
          ELSE ckPc' = "raised" /\ ckErr' = r
  /\ UNCHANGED <<ckVia, ckTarget>> /\ ClickOnly
\* step 2: locator.scroll_into_view_if_needed(timeout=2_000), best effort
CkScroll ==
  /\ ckPc = "scroll"
  /\ \E r \in ClickOutcomes(ckTarget) :
       /\ ckLog' = Append(ckLog, Attempt("scroll", r))
       /\ IF r = "ok" \/ BestEffortCatches(r)
          THEN ckPc' = "hover" /\ ckErr' = ckErr
          ELSE ckPc' = "raised" /\ ckErr' = r
  /\ UNCHANGED <<ckVia, ckTarget>> /\ ClickOnly
\* step 2: locator.hover(timeout=1_000), best effort
CkHover ==
  /\ ckPc = "hover"
  /\ \E r \in ClickOutcomes(ckTarget) :
       /\ ckLog' = Append(ckLog, Attempt("hover", r))
       /\ IF r = "ok" \/ BestEffortCatches(r)
          THEN ckPc' = "force" /\ ckErr' = ckErr
          ELSE ckPc' = "raised" /\ ckErr' = r
  /\ UNCHANGED <<ckVia, ckTarget>> /\ ClickOnly
\* step 2: locator.click(timeout=2_000, force=True)
CkForce ==
  /\ ckPc = "force"
  /\ \E r \in ClickOutcomes(ckTarget) :
       /\ ckLog' = Append(ckLog, Attempt("force", r))
       /\ IF r = "ok" THEN ckPc' = "returned" /\ ckErr' = ckErr
          ELSE IF ClickCatches(r) THEN ckPc' = "invoke" /\ ckErr' = ckErr
          ELSE ckPc' = "raised" /\ ckErr' = r
  /\ UNCHANGED <<ckVia, ckTarget>> /\ ClickOnly
\* step 3: locator.evaluate("el => el.click()")
CkInvoke ==
  /\ ckPc = "invoke"
  /\ \E r \in InvokeOutcomes(ckVia, ckTarget) :
       /\ ckLog' = Append(ckLog, Attempt("invoke", r))
       /\ IF r = "ok" THEN ckPc' = "returned" /\ ckErr' = ckErr
          ELSE IF InvokeCatches(r) THEN ckPc' = "dispatch" /\ ckErr' = ckErr
          ELSE ckPc' = "raised" /\ ckErr' = r
  /\ UNCHANGED <<ckVia, ckTarget>> /\ ClickOnly
\* step 3: locator.evaluate("el => el.dispatchEvent(new MouseEvent(...))")
CkDispatch ==
  /\ ckPc = "dispatch"
  /\ \E r \in DispatchOutcomes(ckVia, ckTarget) :
       /\ ckLog' = Append(ckLog, Attempt("dispatch", r))
       /\ IF r = "ok" THEN ckPc' = "returned" /\ ckErr' = ckErr
          ELSE ckPc' = "raised" /\ ckErr' = r
  /\ UNCHANGED <<ckVia, ckTarget>> /\ ClickOnly
\* The page removes the target from the document while the ladder runs.
CkTargetRemoved ==
  /\ ckPc \notin {"idle", "returned", "raised"}
  /\ ~ckTarget.removed
  /\ ckTarget' = [ckTarget EXCEPT !.removed = TRUE]
  /\ UNCHANGED <<ckVia, ckPc, ckLog, ckErr>> /\ ClickOnly
ClickNext ==
  \/ CkClick \/ CkScroll \/ CkHover \/ CkForce \/ CkInvoke \/ CkDispatch
  \/ CkTargetRemoved

\* ------------------------------------------------------------------------
\* run_assist.main / run_login.main: the entry programs
\* ------------------------------------------------------------------------
\* Both read the configuration first and only then start Playwright.  mnLog
\* lists what was done with the browser; every browser call may raise.
BrowserCalls == {"ok", "raise"}
\* where main goes after load_config(args.config)
AfterLoadConfigAlways(out) == "launch"
AfterLoadConfig(out) == IF out = Raised THEN "exit" ELSE "launch"

MainInit ==
  /\ mnProg \in {"assist", "login"}
  /\ mnPc = "load" /\ mnLog = <<>> /\ mnErr = "none" /\ mnExit = "none"
MainIdle ==
  /\ mnProg = "assist"
  /\ mnPc = "idle" /\ mnLog = <<>> /\ mnErr = "none" /\ mnExit = "none"

\* cfg = load_config(args.config)
MnLoadConfig ==
  /\ mnPc = "load"
  /\ cfg' = LoadConfig(raw)
  /\ mnPc' = AfterLoadConfig(cfg')
  /\ mnErr' = IF cfg' = Raised THEN "config" ELSE mnErr
  /\ UNCHANGED <<raw, delay, comment, mnProg, mnLog, mnExit>>
  /\ UNCHANGED <<scopeVars, tableVars, modalVars, tabVars, fillVars, flowVars,
                 clickVars, waitVars, closedVars, refVars>>
\* with sync_playwright() as p: browser = p.chromium.launch(...)
MnLaunch ==
  /\ mnPc = "launch"
  /\ mnLog' = Append(mnLog, "launch")
  /\ \E r \in BrowserCalls :
       IF r = "ok" THEN mnPc' = "context" /\ mnErr' = mnErr
       ELSE mnPc' = "exit" /\ mnErr' = "launch"
  /\ UNCHANGED <<mnProg, mnExit>> /\ MainOnly
\* context = browser.new_context(...)
MnNewContext ==
  /\ mnPc = "context"
  /\ mnLog' = Append(mnLog, "new_context")
  /\ \E r \in BrowserCalls :
       IF r = "ok" THEN mnPc' = "page" /\ mnErr' = mnErr
       ELSE mnPc' = "exit" /\ mnErr' = "new_context"
  /\ UNCHANGED <<mnProg, mnExit>> /\ MainOnly
\* page = context.new_page()
MnNewPage ==
  /\ mnPc = "page"
  /\ mnLog' = Append(mnLog, "new_page")
  /\ \E r \in BrowserCalls :
       IF r = "ok" THEN mnPc' = (IF mnProg = "assist" THEN "run" ELSE "login")
                        /\ mnErr' = mnErr
       ELSE mnPc' = "exit" /\ mnErr' = "new_page"
  /\ UNCHANGED <<mnProg, mnExit>> /\ MainOnly
\* run_assist: try: assist_all_pages(page, cfg, logger)
MnAssist ==
  /\ mnPc = "run"
  /\ mnLog' = Append(mnLog, "assist_all_pages")
  /\ \E r \in BrowserCalls :
       IF r = "ok" THEN mnPc' = "close_context" /\ mnErr' = mnErr
       ELSE mnPc' = "screenshot" /\ mnErr' = "flow"
  /\ UNCHANGED <<mnProg, mnExit>> /\ MainOnly
\* except Exception: page.screenshot(...); logger.exception(...); raise
MnScreenshot ==
  /\ mnPc = "screenshot"
  /\ \E r \in BrowserCalls :
       IF r = "ok"
       THEN mnLog' = mnLog \o <<"screenshot", "log_error">> /\ mnErr' = mnErr
       ELSE mnLog' = Append(mnLog, "screenshot") /\ mnErr' = "screenshot"
  /\ mnPc' = "close_context"
  /\ UNCHANGED <<mnProg, mnExit>> /\ MainOnly
\* finally: context.close()
MnCloseContext ==
  /\ mnPc = "close_context"
  /\ mnLog' = Append(mnLog, "close_context")
  /\ \E r \in BrowserCalls :
       IF r = "ok" THEN mnPc' = "close_browser" /\ mnErr' = mnErr
       ELSE mnPc' = "exit" /\ mnErr' = "close_context"
  /\ UNCHANGED <<mnProg, mnExit>> /\ MainOnly
\* finally: browser.close()
MnCloseBrowser ==
  /\ mnPc = "close_browser"
  /\ mnLog' = Append(mnLog, "close_browser")
  /\ \E r \in BrowserCalls :
       IF r = "ok" THEN mnErr' = mnErr ELSE mnErr' = "close_browser"
  /\ mnPc' = "exit"
  /\ UNCHANGED <<mnProg, mnExit>> /\ MainOnly
\* run_login: page.goto(cfg.login_url); input(); context.storage_state(...);
\* browser.close(), with no handler around them
MnLogin ==
  /\ mnPc = "login"
  /\ \E n \in 1..4 : \E r \in BrowserCalls :
       LET calls == <<"goto", "input", "storage_state", "close_browser">> IN
       /\ r = "ok" => n = 4
       /\ mnLog' = mnLog \o SubSeq(calls, 1, n)
       /\ mnErr' = IF r = "ok" THEN mnErr ELSE calls[n]
  /\ mnPc' = "exit"
  /\ UNCHANGED <<mnProg, mnExit>> /\ MainOnly
\* return 0 / the exception leaves main: raise SystemExit(main())
MnExit ==
  /\ mnPc = "exit" /\ mnExit = "none"
  /\ mnExit' = IF mnErr = "none" THEN "zero" ELSE "error"
  /\ UNCHANGED <<mnProg, mnPc, mnLog, mnErr>> /\ MainOnly
MainNext ==
  \/ MnLoadConfig \/ MnLaunch \/ MnNewContext \/ MnNewPage \/ MnAssist
  \/ MnScreenshot \/ MnCloseContext \/ MnCloseBrowser \/ MnLogin \/ MnExit

\* ------------------------------------------------------------------------
\* The bounded waits: _wait_for_table, _wait_for_modal,
\* _wait_for_explicit_teacher_tabs, _wait_tab_active_locator,
\* _wait_tab_active_handle and _wait_teacher_tab_switched.  Each polls the
\* page for its condition until its deadline; time is counted in polls.
WaitKinds == {"table", "modal", "explicit_tabs", "tab_locator", "tab_handle", "progress"}
\* What a look at the page gives: the condition met, not met, or the query
\* raising, which every loop catches and takes for not met.
Looks == {"met", "unmet", "error"}
\* After the loop: _wait_for_table makes a last attempt, whose expect raises
\* the platform's error unless the table is visible; _wait_for_modal raises
\* RuntimeError; the other four functions end, which returns normally.
OnExpiry(kind, look) ==
  IF kind = "table" THEN (IF look = "met" THEN "seen" ELSE "raised")
  ELSE IF kind = "modal" THEN "raised"
  ELSE "returned"
WaitsInit ==
  /\ wtKind \in WaitKinds /\ wtLimit \in 0..MaxPolls /\ wtLook \in Looks
  /\ wtTick = 0 /\ wtOut = "polling" /\ wtSeen = FALSE
WaitsIdle ==
  /\ wtKind = "table" /\ wtLimit = 0 /\ wtLook = "unmet"
  /\ wtTick = 0 /\ wtOut = "idle" /\ wtSeen = FALSE
\* one pass of while time.monotonic() - start < timeout_s: look, return when
\* the condition is met, else time.sleep(0.1)
WtPoll ==
  /\ wtOut = "polling" /\ wtTick < wtLimit
  /\ IF wtLook = "met"
       THEN wtOut' = "returned" /\ wtSeen' = TRUE /\ UNCHANGED wtTick
       ELSE wtTick' = wtTick + 1 /\ UNCHANGED <<wtOut, wtSeen>>
  /\ UNCHANGED <<wtKind, wtLimit, wtLook>> /\ WaitsOnly
\* the loop condition fails: the statements after the loop
WtExpire ==
  /\ wtOut = "polling" /\ wtTick >= wtLimit
  /\ LET r == OnExpiry(wtKind, wtLook) IN
       /\ wtOut' = IF r = "raised" THEN "raised" ELSE "returned"
       /\ wtSeen' = (r = "seen")
  /\ UNCHANGED <<wtKind, wtLimit, wtLook, wtTick>> /\ WaitsOnly
\* the page changes between two looks
WtPageChanges ==
  /\ wtOut = "polling"
  /\ wtLook' \in Looks \ {wtLook}
  /\ UNCHANGED <<wtKind, wtLimit, wtTick, wtOut, wtSeen>> /\ WaitsOnly
WaitsNext == WtPoll \/ WtExpire \/ WtPageChanges

\* ------------------------------------------------------------------------
\* _wait_modal_closed(page, modal_locator, max_wait_s, logger): polls until
\* the modal is gone, dismissing a success dialog on the way.  Time is
\* counted in sleeps of the loop and saturates at WaitCap.
WaitCap == MaxWait + 2
ModalLooks == {"visible", "hidden", "error"}
Later(t, d) == IF t + d > WaitCap THEN WaitCap ELSE t + d
\* if max_wait_s and (time.monotonic() - start) > max_wait_s
TimedOutAny(max, elapsed) == elapsed > max
TimedOut(max, elapsed) == max # 0 /\ elapsed > max
ClosedInit ==
  /\ mcMax \in 0..MaxWait /\ mcVis \in ModalLooks /\ mcDialog \in BOOLEAN
  /\ mcPc = "look" /\ mcElapsed = 0 /\ mcTick = <<>>
ClosedIdle ==
  /\ mcMax = 0 /\ mcVis = "hidden" /\ mcDialog = FALSE
  /\ mcPc = "idle" /\ mcElapsed = 0 /\ mcTick = <<>>
\* visible = modal_locator.is_visible(): an exception returns, not visible
\* returns
McLook ==
  /\ mcPc = "look"
  /\ mcTick' = <<mcVis>>
  /\ mcPc' = IF mcVis = "visible" THEN "dismiss" ELSE "returned"
  /\ UNCHANGED <<mcMax, mcVis, mcDialog, mcElapsed>> /\ ClosedOnly
\* _dismiss_success_dialog(page, logger): clicks the dialog's confirm or
\* close control when it finds one; every failure inside is swallowed; the
\* result is not used.  The call takes time.
McDismiss ==
  /\ mcPc = "dismiss"
  /\ mcTick' = Append(mcTick, "dismiss")
  /\ mcDialog' \in {mcDialog, FALSE}
  /\ \E d \in 0..1 : mcElapsed' = Later(mcElapsed, d)
  /\ mcPc' = "check"
  /\ UNCHANGED <<mcMax, mcVis>> /\ ClosedOnly
\* raise TimeoutError when timed out, else time.sleep(0.1) and loop
McCheck ==
  /\ mcPc = "check"
  /\ IF TimedOut(mcMax, mcElapsed)
       THEN mcPc' = "raised" /\ UNCHANGED <<mcTick, mcElapsed>>
       ELSE /\ mcPc' = "look"
            /\ mcTick' = Append(mcTick, "sleep")
            /\ mcElapsed' = Later(mcElapsed, 1)
  /\ UNCHANGED <<mcMax, mcVis, mcDialog>> /\ ClosedOnly
\* the portal or the user: the modal closes, is torn down, shows a dialog
McPortal ==
  /\ mcPc \in {"look", "dismiss", "check"}
  /\ mcVis' \in ModalLooks /\ mcDialog' \in BOOLEAN
  /\ <<mcVis', mcDialog'>> # <<mcVis, mcDialog>>
  /\ UNCHANGED <<mcMax, mcPc, mcElapsed, mcTick>> /\ ClosedOnly
ClosedNext == McLook \/ McDismiss \/ McCheck \/ McPortal

\* ------------------------------------------------------------------------
\* The references assist_all_pages and assist_page hold across the events
\* that replace what is displayed: the scope of assist_all_pages (a Page or
\* Frame object), the table of assist_page (a locator rooted in the scope
\* _wait_for_table resolved) and the element handles of the heuristic tabs.
\* A reference is outdated once the modal was taken down, a tab click
\* re-rendered the modal, or a next-page click changed the list, after the
\* reference was obtained.
RefKinds == {"scope", "table", "handles"}
\* a use of the reference k: noted when k is outdated
UseRef(k) == rfStale' = IF k \in rfOld THEN rfStale \cup {k} ELSE rfStale
RefsInit ==
  /\ rfPc = "resolve" /\ rfPage = 1 /\ rfLeft = 0 /\ rfTabs = 0 /\ rfTi = 1
  /\ rfOld = {} /\ rfStale = {}
RefsIdle ==
  /\ rfPc = "idle" /\ rfPage = 1 /\ rfLeft = 0 /\ rfTabs = 0 /\ rfTi = 1
  /\ rfOld = {} /\ rfStale = {}
\* scope = _resolve_scope_fast(page, cfg, logger), each pass of the page loop
RfResolveScope ==
  /\ rfPc = "resolve"
  /\ rfOld' = rfOld \ {"scope"} /\ rfPc' = "table"
  /\ UNCHANGED <<rfPage, rfLeft, rfTabs, rfTi, rfStale>> /\ RefsOnly
\* scope, table = _wait_for_table(page, cfg, logger): once per assist_page
RfWaitForTable ==
  /\ rfPc = "table"
  /\ rfOld' = rfOld \ {"table"} /\ rfPc' = "count"
  /\ rfLeft' \in 0..MaxRows
  /\ UNCHANGED <<rfPage, rfTabs, rfTi, rfStale>> /\ RefsOnly
\* btns = table.locator(cfg.selectors.pending_button); btns.count() == 0
RfCountPending ==
  /\ rfPc = "count"
  /\ UseRef("table")
  /\ rfPc' = IF rfLeft = 0 THEN "next" ELSE "open"
  /\ UNCHANGED <<rfPage, rfLeft, rfTabs, rfTi, rfOld>> /\ RefsOnly
\* _safe_click(btn); _wait_for_modal; no explicit tabs;
\* teacher_tabs = _collect_teacher_tabs(modal_scope, logger)
RfOpen ==
  /\ rfPc = "open"
  /\ UseRef("table")
  /\ rfTabs' \in 0..MaxTabs /\ rfTi' = 1
  /\ rfOld' = rfOld \ {"handles"}
  /\ rfPc' = IF Iterates(rfTabs') THEN "tab" ELSE "submit"
  /\ UNCHANGED <<rfPage, rfLeft>> /\ RefsOnly
\* _safe_click_handle(h); _wait_tab_active_handle(h); _prefill_active_block:
\* the click may make the portal render the modal anew
RfTab ==
  /\ rfPc = "tab"
  /\ UseRef("handles")
  /\ \E rerender \in BOOLEAN :
       rfOld' = IF rerender THEN rfOld \cup {"handles"} ELSE rfOld
  /\ rfTi' = rfTi + 1
  /\ rfPc' = IF rfTi = rfTabs THEN "submit" ELSE "tab"
  /\ UNCHANGED <<rfPage, rfLeft, rfTabs>> /\ RefsOnly
\* submit, confirmation, expect(modal).to_be_hidden: the modal is taken down
RfSubmitClosed ==
  /\ rfPc = "submit"
  /\ rfOld' = RefKinds /\ rfLeft' = rfLeft - 1 /\ rfPc' = "count"
  /\ UNCHANGED <<rfPage, rfTabs, rfTi, rfStale>> /\ RefsOnly
\* next_btn = scope.locator("#kcpjDataTable_next") ...; return, or
\* el.click(); page.wait_for_timeout(500)
RfNextControl ==
  /\ rfPc = "next"
  /\ UseRef("scope")
  /\ \/ rfPc' = "done" /\ UNCHANGED <<rfPage, rfOld>>
     \/ rfPage < MaxPages /\ rfPage' = rfPage + 1 /\ rfOld' = RefKinds /\ rfPc' = "resolve"
  /\ UNCHANGED <<rfLeft, rfTabs, rfTi>> /\ RefsOnly
RefsNext ==
  RfResolveScope \/ RfWaitForTable \/ RfCountPending \/ RfOpen \/ RfTab
    \/ RfSubmitClosed \/ RfNextControl

\* ------------------------------------------------------------------------
\* Specifications
\* ------------------------------------------------------------------------
InitScope == ScopeInit /\ TableIdle /\ ModalIdle /\ TabsIdle /\ ConfigIdle /\ FillIdle /\ FlowIdle
  /\ ClickIdle /\ MainIdle /\ WaitsIdle /\ ClosedIdle /\ RefsIdle
InitTable == TableInit /\ ScopeIdle /\ ModalIdle /\ TabsIdle /\ ConfigIdle /\ FillIdle /\ FlowIdle
  /\ ClickIdle /\ MainIdle /\ WaitsIdle /\ ClosedIdle /\ RefsIdle
InitModal == ModalInit /\ ScopeIdle /\ TableIdle /\ TabsIdle /\ ConfigIdle /\ FillIdle /\ FlowIdle
  /\ ClickIdle /\ MainIdle /\ WaitsIdle /\ ClosedIdle /\ RefsIdle
InitTabs == TabsInit /\ ScopeIdle /\ TableIdle /\ ModalIdle /\ ConfigIdle /\ FillIdle /\ FlowIdle
  /\ ClickIdle /\ MainIdle /\ WaitsIdle /\ ClosedIdle /\ RefsIdle
InitConfig == ConfigInit /\ ScopeIdle /\ TableIdle /\ ModalIdle /\ TabsIdle /\ FillIdle /\ FlowIdle
  /\ ClickIdle /\ MainIdle /\ WaitsIdle /\ ClosedIdle /\ RefsIdle
InitFill == FillInit /\ ScopeIdle /\ TableIdle /\ ModalIdle /\ TabsIdle /\ ConfigIdle /\ FlowIdle
  /\ ClickIdle /\ MainIdle /\ WaitsIdle /\ ClosedIdle /\ RefsIdle
InitFlow ==
  /\ FlowInit /\ ScopeIdle /\ TableIdle /\ ModalIdle /\ TabsIdle /\ ConfigIdle
  /\ FillIdle /\ ClickIdle /\ MainIdle /\ WaitsIdle /\ ClosedIdle
  /\ RefsIdle
InitLive == InitFlow /\ coop
\* The whole flow against any portal, and against a cooperative one with the
\* program and the portal each taking the steps they can take.
Spec == InitFlow /\ [][Next]_vars
SpecLive == InitLive /\ [][Next]_vars /\ WF_vars(FlowProgram) /\ WF_vars(PortalNext)
InitClick ==
  /\ ClickInit
  /\ ScopeIdle /\ TableIdle /\ ModalIdle /\ TabsIdle /\ ConfigIdle
  /\ FillIdle /\ FlowIdle /\ MainIdle /\ WaitsIdle /\ ClosedIdle
  /\ RefsIdle
SpecClick == InitClick /\ [][ClickNext]_vars
\* The entry programs read the configuration file of the load_config model.
InitMain ==
  /\ MainInit /\ ConfigInit
  /\ ScopeIdle /\ TableIdle /\ ModalIdle /\ TabsIdle
  /\ FillIdle /\ FlowIdle /\ ClickIdle /\ WaitsIdle /\ ClosedIdle
  /\ RefsIdle
SpecMain == InitMain /\ [][MainNext]_vars
InitWaits ==
  /\ WaitsInit
  /\ ScopeIdle /\ TableIdle /\ ModalIdle /\ TabsIdle /\ ConfigIdle
  /\ FillIdle /\ FlowIdle /\ ClickIdle /\ MainIdle /\ ClosedIdle
  /\ RefsIdle
SpecWaits == InitWaits /\ [][WaitsNext]_vars
InitClosed ==
  /\ ClosedInit
  /\ ScopeIdle /\ TableIdle /\ ModalIdle /\ TabsIdle /\ ConfigIdle
  /\ FillIdle /\ FlowIdle /\ ClickIdle /\ MainIdle /\ WaitsIdle
  /\ RefsIdle
SpecClosed == InitClosed /\ [][ClosedNext]_vars
InitRefs ==
  /\ RefsInit
  /\ ScopeIdle /\ TableIdle /\ ModalIdle /\ TabsIdle /\ ConfigIdle
  /\ FillIdle /\ FlowIdle /\ ClickIdle /\ MainIdle /\ WaitsIdle /\ ClosedIdle
SpecRefs == InitRefs /\ [][RefsNext]_vars
\* The full and the fast variants of the two lookups, called on one document.
EqResolveScope == DOMAIN rsDoc # {} /\ CallResolveScope
EqResolveScopeFast == DOMAIN rsDoc # {} /\ CallResolveScopeFast
EqFindTable == DOMAIN ftDom # {} /\ CallFindTable
EqFindTableFast == DOMAIN ftDom # {} /\ CallFindTableFast
EquivNext == EqResolveScope \/ EqResolveScopeFast \/ EqFindTable \/ EqFindTableFast
InitEquiv ==
  /\ (ScopeInit /\ TableIdle) \/ (ScopeIdle /\ TableInit)
  /\ ModalIdle /\ TabsIdle /\ ConfigIdle /\ FillIdle /\ FlowIdle
  /\ ClickIdle /\ MainIdle /\ WaitsIdle /\ ClosedIdle /\ RefsIdle
SpecEquiv == InitEquiv /\ [][EquivNext]_vars
SpecFill == InitFill /\ [][FillNext]_vars
SpecConfig == InitConfig /\ [][ConfigNext]_vars
SpecTabs == InitTabs /\ [][TabsNext]_vars
SpecModal == InitModal /\ [][ModalNext]_vars
SpecScope == InitScope /\ [][ScopeNext]_vars
SpecTable == InitTable /\ [][TableNext]_vars

\* C2: _find_table (and _find_table_fast) tries the primary selector, then the
\* nearest enclosing table of the first rate button/link, then any table
\* containing the keyword text; the first lookup with a match decides the
\* result, and None is returned exactly when the three lookups all answer
\* with no match.
Answers(d, q) == q \notin d.raising
NoMatch(d, q) == Answers(d, q) /\ QCount(d, q) = 0
Hit(d, q) == Answers(d, q) /\ QCount(d, q) > 0
FoundAsSpecified(d, out) ==
  /\ Hit(d, "prim") => out = Ret(Loc("primary", FirstTable(d, "prim")))
  /\ (NoMatch(d, "prim") /\ Hit(d, "btn")) => out = Ret(Loc("ancestor", d.buttons[1]))
  /\ (NoMatch(d, "prim") /\ NoMatch(d, "btn") /\ Hit(d, "kw"))
        => out = Ret(Loc("keyword", FirstTable(d, "kw")))
  /\ out = Ret(None) <=> (NoMatch(d, "prim") /\ NoMatch(d, "btn") /\ NoMatch(d, "kw"))
ReturnedVisible ==
  mOut.st = "return" =>
     LET r == mOut.val
         f == ScopeFrame(r.dom, r.scope)
     IN  /\ r.el \in Matching(f, Candidates(mCfg)[r.cand])
         /\ f.elems[r.el].visible
\* The (scope, element) the claim describes: in scope order, then candidate
\* order, the first visible element matching the candidate.
RECURSIVE FirstVisibleModal(_, _, _, _)
FirstVisibleModal(d, cands, i, k) ==
  LET scopes == IterScopes(d) IN
  IF i > Len(scopes) THEN <<>>
  ELSE IF k > Len(cands) THEN FirstVisibleModal(d, cands, i + 1, 1)
  ELSE LET e == AnyVisibleMatch(ScopeFrame(d, scopes[i]), cands[k]) IN
       IF e # 0 THEN <<scopes[i], e>> ELSE FirstVisibleModal(d, cands, i, k + 1)
ReturnedFirstVisible ==
  mOut.st = "return" =>
     <<mOut.val.scope, mOut.val.el>> = FirstVisibleModal(mOut.val.dom, Candidates(mCfg), 1, 1)
HiddenNeverBlocks == ~mMissed
C3_ModalFirstVisible ==
  ReturnedVisible /\ ReturnedFirstVisible /\ HiddenNeverBlocks

\* C4: every candidate whose bounding box lies more than 220px below the top
\* edge of the modal container is left out of the tabs _collect_teacher_tabs
\* returns, whatever its text; also in the call made by assist_page, which
\* passes the modal's scope (a Page or Frame) as the container.
HasTopEdge(c) == c.kind = "scope" \/ c.bbox = "ok"
ReturnedHandles == { tbOut.val[k].h : k \in DOMAIN tbOut.val }
C4_TabsBelowBandExcluded ==
  (tbOut # Unset /\ HasTopEdge(tbIn.container)) =>
     \A i \in DOMAIN tbIn.handles :
        LET h == tbIn.handles[i] IN
        (h.box.has /\ h.box.y > tbIn.container.top + TabBand) => i \notin ReturnedHandles
\* C4 restricted to a container passed as an element locator whose box is read
C4_LocatorBelowBandExcluded ==
  (tbOut # Unset /\ tbIn.container.kind = "locator" /\ tbIn.container.bbox = "ok") =>
     \A i \in DOMAIN tbIn.handles :
        LET h == tbIn.handles[i] IN
        (h.box.has /\ h.box.y > tbIn.container.top + TabBand) => i \notin ReturnedHandles

\* C5: the tabs returned by _collect_teacher_tabs are in ascending order of
\* bounding-box x, no two of them carry the same text (of the candidates left
\* after the text and position filters, the first one with a given text is
\* the one kept), and none carries a text of the skip set.
Eligible(in, i) ==
  LET h == in.handles[i] IN
  /\ h.txt \notin ({TxtRaises, ""} \cup SkipText)
  /\ ~(h.box.has /\ h.box.y > TopY(in.container) + TabBand)
C5_TabsSortedDedupedNoSkip ==
  tbOut # Unset =>
     LET out == tbOut.val
         hs == tbIn.handles
     IN  /\ \A k, l \in DOMAIN out :
              (k < l /\ hs[out[k].h].box.has /\ hs[out[l].h].box.has)
                 => hs[out[k].h].box.x <= hs[out[l].h].box.x
         /\ \A k, l \in DOMAIN out : k # l => out[k].txt # out[l].txt
         /\ \A k \in DOMAIN out :
              /\ out[k].txt = hs[out[k].h].txt
              /\ out[k].txt \notin SkipText
              /\ Eligible(tbIn, out[k].h)
              /\ \A j \in 1..(out[k].h - 1) : Eligible(tbIn, j) => hs[j].txt # out[k].txt
         /\ \A i \in DOMAIN hs : Eligible(tbIn, i) => \E k \in DOMAIN out : out[k].txt = hs[i].txt
\* C5 witness: two eligible candidates carry the same text and the result
\* holds the first of the two only.
C5_Witness ==
  /\ tbOut # Unset
  /\ Len(tbIn.handles) >= 2
  /\ Eligible(tbIn, 1) /\ Eligible(tbIn, 2)
  /\ tbIn.handles[1].txt = tbIn.handles[2].txt
  /\ Len(tbOut.val) = 1 /\ tbOut.val[1].h = 1

\* C7: load_config rejects every delays_ms pair with min < 0 or max < min and
\* accepts every pair with 0 <= min <= max (of a configuration whose comment
\* pool is not empty); every delay drawn by _rand_delay under an accepted
\* configuration lies between min and max, both included.
EffMin == GetOr(raw.min, DefaultMin)
EffMax == GetOr(raw.max, DefaultMax)
HasTemplates == raw.templates.has /\ raw.templates.v # <<>>
C7_DelayBoundsChecked ==
  /\ cfg # Unset =>
       /\ (EffMin < 0 \/ EffMax < EffMin) => cfg = Raised
       /\ (0 <= EffMin /\ EffMin <= EffMax /\ HasTemplates) => cfg.st = "return"
  /\ delay.has => (cfg.st = "return" /\ EffMin <= delay.v /\ delay.v <= EffMax)
\* C7 witness: a configuration with min = max was accepted and a delay drawn
C7_Witness ==
  /\ cfg.st = "return" /\ raw.min.has /\ raw.max.has /\ EffMin = EffMax
  /\ delay.has /\ delay.v = EffMin

\* C8: load_config rejects an empty or missing comment_templates list; under
\* an accepted configuration every value written to a comment field is (the
\* string form of) an element of the configured comment_templates list.
C8_CommentFromPool ==
  /\ (cfg # Unset /\ ~HasTemplates) => cfg = Raised
  /\ comment.has =>
       /\ cfg.st = "return"
       /\ \E i \in DOMAIN raw.templates.v : comment.v = Str(raw.templates.v[i])
\* C8 witness: the second template of a two-element pool was written
C8_Witness ==
  /\ comment.has /\ Len(raw.templates.v) = 2
  /\ raw.templates.v[1] # raw.templates.v[2]
  /\ comment.v = Str(raw.templates.v[2])

\* C6: for every question with at least one radio option, if the preferred
\* rating label matches one option, exactly that option is clicked; if no
\* option matches it, the last option in document order is selected; exactly
\* one option is selected per such question per fill pass.
ClickEvents == { n \in DOMAIN pfLog : pfLog[n].k = "click" }
OptionsWithLabel(q, t) == { i \in 1..LabelCount(q) : q.opts[i] = t }
PreferredOrLastClicked ==
  \A n \in ClickEvents :
     LET q == pfIn.questions[pfLog[n].q]
         match == OptionsWithLabel(q, pfIn.rating)
     IN  IF match # {} THEN pfLog[n].opt \in match
         ELSE pfLog[n].opt = RadioCount(q)
\* The questions of the running pass that the loop has gone past
Passed == { pfList[k] : k \in 1..(pfI - 1) }
OneClickPerQuestion ==
  pfPc \in {"pass1", "pass2"} =>
     \A qi \in Passed :
        RadioCount(pfIn.questions[qi]) > 0 =>
           Cardinality({ n \in ClickEvents : pfLog[n].pass = pfPc /\ pfLog[n].q = qi }) = 1
C6_PreferredOrLastOption == PreferredOrLastClicked /\ OneClickPerQuestion
\* C6 read with the matching the code uses (label:has-text, a substring
\* test): the first option whose label contains the rating text is clicked,
\* and the last option when no label contains it.
C6_FirstContainingOrLast ==
  \A n \in ClickEvents :
     LET q == pfIn.questions[pfLog[n].q]
         match == { i \in 1..LabelCount(q) : HasText(q.opts[i], pfIn.rating) }
     IN  IF match # {} THEN pfLog[n].opt \in match /\ \A i \in match : pfLog[n].opt <= i
         ELSE pfLog[n].opt = RadioCount(q)

\* C9: once the item loop of a page has drained, assist_all_pages returns
\* exactly when the next-page control (the one found by id, else the one
\* found by text) is absent, has a disabled class on itself or on its parent,
\* or has aria-disabled true; in every other case it clicks the control, and
\* when the click goes through the item loop starts again on the next page.
ControlLookedUp(seen) == IF seen.byId.present THEN seen.byId ELSE seen.byText
LastPageLook(c) ==
  \/ ~c.present
  \/ c.cls = "next disabled"
  \/ c.parent = "disabled"
  \/ c.aria \in {"true", "TRUE"}
C9_PaginationDecision ==
  /\ pc = "done" => nextSeen.has
  /\ nextSeen.has =>
       /\ pg = nextSeen.at => first > rows
       /\ nextAct = "return" <=> LastPageLook(ControlLookedUp(nextSeen))
       /\ nextAct = "return" => pc = "done" /\ pg = nextSeen.at
       /\ nextAct # "return" =>
            /\ nextAct = "click"
            /\ \/ pc = "resolve" /\ pg = nextSeen.at + 1
               \/ pc = "raised" /\ pg = nextSeen.at
\* C9 witness: the control of page 1 was clicked, and on page 2, after an
\* item was processed, the run stops on a control found by text only whose
\* sole sign of being disabled is its aria-disabled attribute.
C9_Witness ==
  /\ pc = "done" /\ pg = 2 /\ <<2, 1>> \in processed
  /\ ~nextSeen.byId.present
  /\ nextSeen.byText.present
  /\ nextSeen.byText.cls = "next"
  /\ nextSeen.byText.parent = "raises"
  /\ nextSeen.byText.aria = "TRUE"

\* C10: against a cooperative portal (every awaited condition comes to hold,
\* a submission takes the modal down and removes the row's pending
\* affordance, the last page's next control is absent or disabled) the run
\* ends in a normal return of assist_all_pages, and by then every pending
\* item of every page displayed has been opened once, filled once for each tab
\* that is to be filled (once when there is no tab to switch to), submitted
\* once and seen closed, none of them twice.
C10_TerminatesAllProcessed ==
  <>[](pc = "done" /\ pg >= 1 /\ drained = 1..pg /\ ~anomaly)
\* C10 witness: a normal return from the second page, whose two items were
\* processed like those of the first.
C10_Witness ==
  /\ pc = "done" /\ pg = 2 /\ coop
  /\ processed = PageItems(2, 2)
  /\ drained = {1, 2} /\ ~anomaly

\* C11: when the modal is still visible at the end of the wait that follows
\* submit and the confirmation loop, the run ends in an error: the program
\* leaves that wait for the item loop only with the modal hidden, and once
\* an error is raised no pending item is opened, no page is turned and no
\* next-page decision is made any more.
C11_HiddenTimeoutFatal ==
  [][/\ (pc = "expect_hidden" /\ pc' # "expect_hidden") =>
          IF modal = "closed" THEN pc' = "count" ELSE pc' = "raised"
     /\ pc = "raised" =>
          /\ pc' = "raised"
          /\ UNCHANGED <<cur, pg, rows, nextSeen, nextAct, processed, drained>>]_vars
\* C11 witness: the error was raised after a submit whose confirmation
\* dialog was still up, with another pending row left on the page.
C11_Witness ==
  /\ pc = "raised" /\ cur.submits = 1 /\ modal = "dialog"
  /\ polls = MaxPolls /\ first < rows

\* C12: in the click ladder a later step is attempted only after the click of
\* the step before it timed out: the forced click only after a timed-out
\* plain click, step 3 only after a timed-out forced click; an error other
\* than a timeout raised by the plain or by the forced click is the last call
\* made and reaches the caller; and whatever scroll and hover do, the forced
\* click is the call that follows them.
StepAt(i) == ckLog[i].step
ResAt(i) == ckLog[i].res
LadderEscalatesOnTimeoutOnly ==
  \A i \in 1..Len(ckLog) :
    /\ StepAt(i) = "click" => i = 1
    /\ StepAt(i) = "scroll" => i = 2 /\ StepAt(1) = "click" /\ ResAt(1) = "timeout"
    /\ StepAt(i) = "force" => i = 4 /\ ResAt(1) = "timeout"
    /\ StepAt(i) = "invoke" => i = 5 /\ StepAt(4) = "force" /\ ResAt(4) = "timeout"
OtherErrorsPropagate ==
  \A i \in 1..Len(ckLog) :
    (StepAt(i) \in {"click", "force"} /\ ResAt(i) = "error") =>
       /\ i = Len(ckLog)
       /\ ckPc = "raised" /\ ckErr = "error"
BestEffortNeverStops ==
  \A i \in 1..Len(ckLog) :
    /\ StepAt(i) = "scroll" =>
         IF i = Len(ckLog) THEN ckPc = "hover" ELSE StepAt(i + 1) = "hover"
    /\ StepAt(i) = "hover" =>
         IF i = Len(ckLog) THEN ckPc = "force" ELSE StepAt(i + 1) = "force"
C12_LadderSteps ==
  /\ LadderEscalatesOnTimeoutOnly
  /\ OtherErrorsPropagate
  /\ BestEffortNeverStops
\* C12 witness: the plain click timed out, scroll and hover both failed, and
\* the forced click was still made; its non-timeout error ended the ladder.
C12_Witness ==
  /\ Len(ckLog) = 4 /\ ckPc = "raised" /\ ckErr = "error"
  /\ ckLog[1] = Attempt("click", "timeout")
  /\ ckLog[2] = Attempt("scroll", "error")
  /\ ckLog[3] = Attempt("hover", "timeout")
  /\ ckLog[4] = Attempt("force", "error")

\* C13: once step 3 is reached the ladder ends in a normal return, by the
\* element's own click when it has one and otherwise by the dispatched
\* event (tried only when the first call raised); the one way it ends in an
\* error is the platform's error of the second call on a target no longer
\* in the document, which reaches the caller as it is.
ReachedStep3 == Len(ckLog) >= 5 /\ StepAt(5) = "invoke"
C13_Step3NeverFails ==
  /\ \A i \in 1..Len(ckLog) :
       /\ StepAt(i) = "dispatch" =>
            /\ i = 6 /\ StepAt(5) = "invoke" /\ ResAt(5) # "ok"
            /\ ResAt(i) = "ok" => ckPc = "returned"
       /\ (StepAt(i) = "invoke" /\ ResAt(i) = "ok") =>
            i = Len(ckLog) /\ ckPc = "returned"
       /\ (StepAt(i) = "invoke" /\ ResAt(i) # "ok") =>
            IF i = Len(ckLog) THEN ckPc = "dispatch" ELSE StepAt(i + 1) = "dispatch"
  /\ ReachedStep3 =>
       /\ ckPc \in {"dispatch", "returned", "raised"}
       /\ ckPc = "raised" =>
            /\ ckTarget.removed
            /\ ckLog[Len(ckLog)] = Attempt("dispatch", "removed")
            /\ ckErr = "removed"
\* C13 witness: the element had no click method, the dispatched event went
\* through and the call returned.
C13_Witness ==
  /\ ckPc = "returned" /\ Len(ckLog) = 6
  /\ ckLog[5] = Attempt("invoke", "unavailable")
  /\ ckLog[6] = Attempt("dispatch", "ok")

\* C14: in both entry programs a configuration with an empty comment pool or
\* with invalid delay bounds ends the run, with an error, before anything is
\* done with a browser: nothing is launched, no page is opened, nothing is
\* navigated to.
ConfigRejectable == ~HasTemplates \/ EffMin < 0 \/ EffMax < EffMin
C14_ConfigErrorBeforeBrowser ==
  ConfigRejectable =>
    /\ mnLog = <<>>
    /\ mnPc \in {"load", "exit"}
    /\ mnPc = "exit" => mnErr = "config" /\ mnExit # "zero"
\* C14 witness: run_login given a comment pool and the bounds min 2, max 1
\* has ended with the configuration error.
C14_Witness ==
  /\ mnProg = "login" /\ HasTemplates /\ EffMin = 2 /\ EffMax = 1
  /\ mnExit = "error" /\ mnErr = "config" /\ mnLog = <<>>

\* C15: the item loop of assist_page counts the pending affordances anew
\* before every item: a pending affordance is clicked only straight after a
\* count that was not zero, and it is the first one left in the table;
\* assist_page returns only from a count of zero, and that iteration clicks
\* nothing and opens no modal.
C15_ItemLoopCounts ==
  [][/\ (pc' = "open" /\ pc # "open") => (pc = "count" /\ first <= rows)
     /\ (pc' = "next" /\ pc # "next") =>
           /\ pc = "count" /\ first > rows
           /\ UNCHANGED <<cur, modal, first, rows>>
     /\ (pc = "count" /\ pc' # "count") => (pc' = "next" <=> first > rows)
     /\ cur' # cur /\ cur'.item # <<0, 0>> /\ cur'.item # cur.item =>
           /\ pc = "open" /\ first <= rows
           /\ cur'.item = <<pg, first>>
           /\ modal = "closed" /\ modal' = "opening"]_vars
\* C15 witness: assist_page has returned from page 1 after two items, each
\* opened after a count of its own.
C15_Witness ==
  /\ pc = "next" /\ pg = 1 /\ rows = 2 /\ first = 3
  /\ processed = PageItems(1, 2)

\* C16: with explicit tabs, what assist_page does to the tabs is the
\* beginning of this plan: for each tab carrying an identifier, in document
\* order, click it, observe it active, fill its block (so each such tab is
\* filled once, after its click and its active state, and no other tab is
\* touched); an active state not observed ends the run in an error, with no
\* fill; submit is clicked at most once, after the whole plan.
IsTabEvent(ev) == ev.e \in {"tab_click", "active", "waited", "fill"}
TabEvents == SelectSeq(trace, IsTabEvent)
IsPrefix(a, b) == Len(a) <= Len(b) /\ SubSeq(b, 1, Len(a)) = a
RECURSIVE ExplicitPlan(_, _)
ExplicitPlan(gh, i) ==
  IF i > Len(gh) THEN <<>>
  ELSE (IF gh[i] THEN <<Ev("tab_click", i), Ev("active", i), Ev("fill", i)>> ELSE <<>>)
         \o ExplicitPlan(gh, i + 1)
Submits == {j \in 1..Len(trace) : trace[j].e = "submit"}
SubmitOnceAfter(plan) ==
  /\ Cardinality(Submits) <= 1
  /\ \A j \in Submits :
       /\ TabEvents = plan
       /\ \A k \in 1..Len(trace) : IsTabEvent(trace[k]) => k < j
C16_ExplicitTabsInOrder ==
  tabs.kind = "explicit" =>
    /\ IsPrefix(TabEvents, ExplicitPlan(tabs.gh, 1))
    /\ SubmitOnceAfter(ExplicitPlan(tabs.gh, 1))
    /\ pc \in {"submit", "confirm", "expect_hidden"} =>
         TabEvents = ExplicitPlan(tabs.gh, 1)
    /\ pc \in {"confirm", "expect_hidden"} => Cardinality(Submits) = 1
    /\ (TabEvents # <<>> /\ TabEvents[Len(TabEvents)].e = "tab_click") =>
         pc \in {"x_active", "raised"}
\* C16 witness: of two explicit tabs the first carries no identifier; the
\* second was clicked, seen active and filled, and submit was clicked.
C16_Witness ==
  /\ tabs.kind = "explicit" /\ tabs.gh = <<FALSE, TRUE>>
  /\ pc = "confirm"
  /\ trace = <<Ev("pending", 0), Ev("modal", 0), Ev("tab_click", 2),
               Ev("active", 2), Ev("fill", 2), Ev("submit", 0)>>

\* C17: without explicit tabs, what assist_page does to the tabs is the
\* beginning of this plan: with more than one detected tab, for each tab from
\* left to right, click it, wait on it, fill its block; with one tab or none,
\* one fill of the active block and no tab click.  Submit is clicked once,
\* after the whole plan.
RECURSIVE HeuristicTabsPlan(_, _)
HeuristicTabsPlan(n, i) ==
  IF i > n THEN <<>>
  ELSE <<Ev("tab_click", i), Ev("waited", i), Ev("fill", i)>> \o HeuristicTabsPlan(n, i + 1)
HeuristicPlan(n) == IF n > 1 THEN HeuristicTabsPlan(n, 1) ELSE <<Ev("fill", 0)>>
C17_HeuristicTabsOrFillOnce ==
  tabs.kind = "heuristic" =>
    /\ IsPrefix(TabEvents, HeuristicPlan(tabs.n))
    /\ SubmitOnceAfter(HeuristicPlan(tabs.n))
    /\ pc \in {"submit", "confirm", "expect_hidden"} => TabEvents = HeuristicPlan(tabs.n)
    /\ pc \in {"confirm", "expect_hidden"} => Cardinality(Submits) = 1
    /\ tabs.n <= 1 => \A k \in 1..Len(trace) : trace[k].e # "tab_click"
\* C17 witness: two detected tabs were each clicked, waited on and filled, and
\* submit was clicked.
C17_Witness ==
  /\ tabs.kind = "heuristic" /\ tabs.n = 2 /\ pc = "confirm"
  /\ trace = <<Ev("pending", 0), Ev("modal", 0),
               Ev("tab_click", 1), Ev("waited", 1), Ev("fill", 1),
               Ev("tab_click", 2), Ev("waited", 2), Ev("fill", 2), Ev("submit", 0)>>
\* the other case of C17: one detected tab, filled once without a click
C17_WitnessSingle ==
  /\ tabs.kind = "heuristic" /\ tabs.n = 1 /\ pc = "confirm"
  /\ trace = <<Ev("pending", 0), Ev("modal", 0), Ev("fill", 0), Ev("submit", 0)>>

\* C18: a bounded wait that returns normally has seen its condition met: on
\* expiry without it, every one of the six waits raises.
C18_WaitsRaiseOnExpiry == wtOut = "returned" => wtSeen
\* what holds of C18: the table wait and the modal wait return only with
\* their condition seen, and raise once their deadline passed without it.
C18_TableAndModalRaise ==
  wtKind \in {"table", "modal"} =>
    /\ wtOut = "returned" => wtSeen
    /\ wtOut = "raised" => wtTick >= wtLimit
\* the expiry case of the table and modal waits
C18_ExpiredRaised == wtKind = "modal" /\ wtOut = "raised" /\ wtTick = MaxPolls /\ wtLook = "unmet"

\* C19: _wait_modal_closed returns exactly on a pass of its loop that found
\* the modal not visible or whose visibility query raised; with max_wait_s = 0
\* it never raises; it raises exactly at the end of a pass that found the
\* modal visible with max_wait_s > 0 and the elapsed time above max_wait_s,
\* and otherwise sleeps and polls again; every pass that found the modal
\* visible ran the dismissal before its sleep or its raise.
ClosedPassShape ==
  /\ mcPc = "returned" <=> mcTick \in {<<"hidden">>, <<"error">>}
  /\ mcPc = "dismiss" => mcTick = <<"visible">>
  /\ mcPc = "check" => mcTick = <<"visible", "dismiss">>
  /\ mcPc = "look" => mcTick \in {<<>>, <<"visible", "dismiss", "sleep">>}
  /\ mcPc = "raised" =>
       /\ mcTick = <<"visible", "dismiss">>
       /\ mcMax > 0 /\ mcElapsed > mcMax
  /\ mcMax = 0 => mcPc # "raised"
ClosedPassEnds ==
  mcPc = "check" /\ mcPc' # "check" =>
    IF mcMax > 0 /\ mcElapsed > mcMax THEN mcPc' = "raised" ELSE mcPc' = "look"
C19_WaitModalClosed == []ClosedPassShape /\ [][ClosedPassEnds]_vars
\* C19 witness: with max_wait_s = 1 a pass found the modal visible, ran the
\* dismissal, and the elapsed time was above 1: TimeoutError.
C19_Witness ==
  /\ mcPc = "raised" /\ mcMax = 1 /\ mcElapsed = 2 /\ mcVis = "visible"
  /\ mcTick = <<"visible", "dismiss">>
\* the unbounded case of C19: still polling at the time cap
C19_WitnessUnbounded ==
  /\ mcMax = 0 /\ mcElapsed = WaitCap /\ mcPc = "look"
  /\ mcTick = <<"visible", "dismiss", "sleep">>
\* the torn-down case of C19
C19_WitnessTornDown == mcPc = "returned" /\ mcTick = <<"error">> /\ mcElapsed > 0

\* C20: every click-like interaction of the flow (pending affordance, teacher
\* tab, question option, submit, confirmation control, next-page control) is
\* followed by a _rand_delay before the next one: no click is made while an
\* earlier click still waits for its delay.
C20_DelayAfterEachClick == missed = NoMiss
\* what holds of C20: the option clicks are each followed by a delay, and so
\* is the closing of the modal: the only clicks ever left waiting for their
\* delay are those on a pending affordance, a teacher tab, submit, the
\* confirmation control and the next-page control.
C20_DelayedClicks ==
  /\ owed \in {"none", "pending", "tab", "submit", "confirm", "next"}
  /\ missed.a # "question"
  /\ (trace # <<>> /\ trace[Len(trace)].e = "closed") => owed = "none"
\* a submit click made straight after the clicks on the pending affordance
\* and on an explicit tab, with no option click in between
C20_SubmitAfterUndelayedTab ==
  /\ pc = "confirm" /\ tabs.kind = "explicit" /\ owed = "submit"
  /\ missed = [a |-> "pending", b |-> "tab"]

\* C21: no scope, table or element handle obtained before a modal teardown,
\* a re-rendering tab switch or a next-page click is used after it.
C21_NoStaleReference == rfStale = {}
\* what holds of C21: the scope is resolved anew after a next-page click and
\* the table once per page, so on a page without a pending row no outdated
\* reference is used; the tab handles are collected anew for each modal.
C21_FreshPerPage ==
  /\ rfPc = "table" => "scope" \notin rfOld
  /\ rfPc = "count" /\ rfLeft = MaxRows => "table" \notin rfOld
  /\ rfPc = "tab" /\ rfTi = 1 => "handles" \notin rfOld
\* all three kinds of reference used outdated in one run
C21_AllStale == rfStale = RefKinds /\ rfPc = "done"

\* C22: a lookup helper never hands an error of an element query to its
\* caller: _find_table and _find_table_fast return a handle or None whatever
\* the queries of the scope do.
C22_FindTableSwallows == ftOut # Raised /\ ftFastOut # Raised
\* what holds of C22: _resolve_scope and _resolve_scope_fast return a scope
\* even when every query raises.
C22_ResolveScopeSwallows ==
  /\ rsOut # Unset => rsOut.st = "return"
  /\ rsFastOut # Unset => rsFastOut.st = "return"
\* every query of the document raising, both variants returned the page
C22_ResolveScopeAllRaising ==
  /\ rsOut = Ret(PageScope) /\ rsFastOut = Ret(PageScope)
  /\ rsDoc.page = [prim |-> Raises, fb |-> Raises]
  /\ \A i \in DOMAIN rsDoc.frames : rsDoc.frames[i].look = [prim |-> Raises, fb |-> Raises]

\* C23: _prefill_active_block runs its question pass once with the configured
\* selector and a second time, with the broadened selector, exactly when the
\* progress indicator is present, parses as done/total with done < total and
\* a question with a radio input exists; there is no third pass; in a pass
\* every question is either filled or skipped, a question without radio
\* inputs being skipped.
PassClicks(p) == {k \in 1..Len(pfLog) : pfLog[k].k = "click" /\ pfLog[k].pass = p}
WithRadios == {i \in 1..Len(pfIn.questions) : Len(pfIn.questions[i].opts) > 0}
ShowsUndone ==
  /\ pfIn.progress.present /\ pfIn.progress.parsed
  /\ pfIn.progress.done < pfIn.progress.total
SkippedSoFar == {k \in 1..(pfI - 1) : pfList[k] \notin WithRadios}
C23_RetryOnceWhenUndone ==
  pfPc \notin {"idle", "start", "raised"} =>
    /\ \A k \in 1..Len(pfLog) : pfLog[k].k = "click" => pfLog[k].pass \in {"pass1", "pass2"}
    /\ \A p \in {"pass1", "pass2"} : \A k, l \in PassClicks(p) :
         pfLog[k].q = pfLog[l].q => k = l
    /\ pfPc = "pass2" => ShowsUndone /\ WithRadios # {}
    /\ pfPc = "done" => (PassClicks("pass2") # {} <=> (ShowsUndone /\ WithRadios # {}))
    /\ pfPc \in {"pass1", "pass2"} =>
         /\ pfCount.filled + pfCount.skipped = pfI - 1
         /\ pfCount.skipped = Cardinality(SkippedSoFar)
    /\ pfPc \in {"progress", "done"} =>
         pfCount.filled + pfCount.skipped = Len(pfList)
\* C23 witness: the first pass skipped a question without radio inputs, the
\* indicator showed done < total, and the second pass clicked an option.
C23_Witness ==
  /\ pfPc = "done" /\ PassClicks("pass2") # {}
  /\ \E i \in 1..Len(pfIn.questions) :
       pfIn.questions[i].cfgMatch /\ i \notin WithRadios
\* the other case of C23: the indicator shows done >= total, no second pass
C23_WitnessNoRetry ==
  /\ pfPc = "done" /\ PassClicks("pass2") = {} /\ PassClicks("pass1") # {}
  /\ pfIn.progress.parsed /\ pfIn.progress.done >= pfIn.progress.total

\* C24: within a tab every question-option click happens before the tab's
\* comment field is filled.
C24_OptionClicksBeforeComment ==
  \A k, l \in 1..Len(pfLog) :
    (pfLog[k].k = "click" /\ pfLog[l].k = "comment") => k < l
\* what holds of C24, in one _prefill_active_block: the option clicks of the
\* first pass come before the comment, which is filled once.
C24_FirstPassBeforeComment ==
  /\ \A k, l \in 1..Len(pfLog) :
       (pfLog[k].k = "click" /\ pfLog[k].pass = "pass1" /\ pfLog[l].k = "comment") => k < l
  /\ Cardinality({l \in 1..Len(pfLog) : pfLog[l].k = "comment"}) <= 1
\* what holds of C24, per item: the pending affordance is clicked first,
\* submit after the last fill, the confirmation control after submit, the
\* closing is seen last; the next pending affordance is not clicked before
\* the modal was seen hidden.
EventsAt(name) == {k \in 1..Len(trace) : trace[k].e = name}
AllBefore(a, b) == \A k \in EventsAt(a) : \A l \in EventsAt(b) : k < l
ItemOrder ==
  /\ EventsAt("pending") \subseteq {1}
  /\ AllBefore("fill", "submit") /\ AllBefore("submit", "confirm")
  /\ AllBefore("submit", "closed") /\ AllBefore("confirm", "closed")
  /\ EventsAt("confirm") # {} => EventsAt("submit") # {}
  /\ EventsAt("closed") # {} => EventsAt("submit") # {}
PendingAfterHidden ==
  (trace' # trace /\ trace' = <<Ev("pending", 0)>>) => owed \in {"none", "next"}
C24_ItemOrder == []ItemOrder /\ [][PendingAfterHidden]_vars
\* a second item opened after the first one's modal was seen hidden
C24_SecondItemOpened ==
  /\ trace = <<Ev("pending", 0)>> /\ first = 2 /\ cur.submits = 0 /\ pg = 1

\* C25: run_assist, once the page is open and with the closing calls doing
\* their work: when assist_all_pages raised, a screenshot was taken and the
\* error was logged, and the run ends with an error; the context and the
\* browser were closed, in that order, before the exit; the exit code is 0
\* only if assist_all_pages returned normally.
InLog(x) == \E k \in 1..Len(mnLog) : mnLog[k] = x
ClosingFailed == mnErr \in {"close_context", "close_browser"}
ClosedBeforeExit ==
  \E k, l \in 1..Len(mnLog) :
    k < l /\ mnLog[k] = "close_context" /\ mnLog[l] = "close_browser"
C25_FailureCapturedAndLogged ==
  (mnProg = "assist" /\ mnExit # "none" /\ InLog("assist_all_pages") /\ ~ClosingFailed) =>
    /\ mnErr # "none" => (InLog("screenshot") /\ InLog("log_error") /\ mnExit = "error")
    /\ ClosedBeforeExit
    /\ mnExit = "zero" => (mnErr = "none" /\ ~InLog("screenshot"))
\* what holds of C25: the same without the error log line, which is written
\* only when the screenshot was taken.
C25_CapturedClosedExitCode ==
  (mnProg = "assist" /\ mnExit # "none" /\ InLog("assist_all_pages") /\ ~ClosingFailed) =>
    /\ mnErr # "none" => (InLog("screenshot") /\ mnExit = "error")
    /\ InLog("log_error") <=> mnErr = "flow"
    /\ ClosedBeforeExit
    /\ mnExit = "zero" => (mnErr = "none" /\ ~InLog("screenshot"))
\* the failure path with a screenshot taken: logged, closed, exit with error
C25_FailureLogged ==
  /\ mnProg = "assist" /\ mnExit = "error" /\ mnErr = "flow"
  /\ mnLog = <<"launch", "new_context", "new_page", "assist_all_pages",
               "screenshot", "log_error", "close_context", "close_browser">>

\* C26: a handle returned by _find_table or _find_table_fast resolves to a
\* table element of the scope.
HandleResolves(out) == (out.st = "return" /\ out.val # None) => out.val.el # 0
C26_ReturnedHandleResolves == HandleResolves(ftOut) /\ HandleResolves(ftFastOut)
\* what holds of C26: a handle built from the primary selector or from the
\* keyword text resolves to a table; only the walk up from the first rate
\* button can resolve to nothing, when that button is inside no table.
ResolvesUnlessAncestor(out) ==
  (out.st = "return" /\ out.val # None) =>
    \/ out.val.el \in DOMAIN ftDom.tables
    \/ out.val.via = "ancestor" /\ out.val.el = 0 /\ ftDom.buttons[1] = 0
C26_OnlyAncestorUnresolved == ResolvesUnlessAncestor(ftOut) /\ ResolvesUnlessAncestor(ftFastOut)
\* a keyword table exists, the first rate button is outside every table, and
\* both variants returned the handle that resolves to nothing
C26_KeywordTablePassedOver ==
  /\ FirstTable(ftDom, "kw") # 0 /\ ftDom.raising = {}
  /\ ftOut = Ret(Loc("ancestor", 0)) /\ ftFastOut = Ret(Loc("ancestor", 0))

\* C27: on one document, whatever its match counts and raising queries,
\* _resolve_scope_fast returns what _resolve_scope returns and
\* _find_table_fast ends as _find_table ends: with the same handle, with
\* None, or with the error of the same query.
C27_FastEqualsFull ==
  /\ (rsOut # Unset /\ rsFastOut # Unset) => rsOut = rsFastOut
  /\ (ftOut # Unset /\ ftFastOut # Unset) => ftOut = ftFastOut
\* C27 witness: the primary selector and the rate buttons match nothing, the
\* second table contains the keyword, and both variants returned it.
C27_Witness ==
  /\ ftOut = Ret(Loc("keyword", 2)) /\ ftFastOut = ftOut
  /\ ftDom.raising = {} /\ Len(ftDom.buttons) = 0
\* C27 witness for the scopes: a fallback match in a frame, past a raising
\* query of the page
C27_WitnessScope ==
  /\ rsOut # Unset /\ rsFastOut = rsOut /\ rsOut # Ret(PageScope)
  /\ rsDoc.page.fb = Raises /\ ~AnyMatch(rsDoc, "prim")

====
